---- MODULE Spec2Model ----
(***************************************************************************)
(* A model of naechste, a linter of Next.js project layouts.               *)
(*                                                                         *)
(* Text (paths, globs, import specifiers) is a sequence of one-character   *)
(* strings, so that prefix tests, glob matching and path arithmetic are    *)
(* computed character by character as the Rust code computes them.         *)
(***************************************************************************)
EXTENDS Integers, Sequences, FiniteSets, TLC

\* Option<T>: None is the empty sequence, Some(x) the one-element sequence.
None == <<>>
Some(x) == <<x>>
IsSome(o) == o # <<>>
Unwrap(o) == o[1]

\* ------------------------------------------------------------------------
\* Strings (str::starts_with, strip_prefix, trim_*_matches, format!)
\* ------------------------------------------------------------------------

SLASH == "/"
DOT == "."

StartsWith(s, p) ==
    /\ Len(p) <= Len(s)
    /\ SubSeq(s, 1, Len(p)) = p

EndsWith(s, p) ==
    /\ Len(p) <= Len(s)
    /\ SubSeq(s, Len(s) - Len(p) + 1, Len(s)) = p

Drop(s, n) == SubSeq(s, n + 1, Len(s))

RECURSIVE TrimStart(_, _)
TrimStart(s, c) ==
    IF s # <<>> /\ Head(s) = c THEN TrimStart(Tail(s), c) ELSE s

RECURSIVE TrimEnd(_, _)
TrimEnd(s, c) ==
    IF s # <<>> /\ s[Len(s)] = c THEN TrimEnd(SubSeq(s, 1, Len(s) - 1), c) ELSE s

\* The '/'-separated pieces of s, empty pieces included (str::split('/')).
RECURSIVE SplitFrom(_, _, _)
SplitFrom(s, i, cur) ==
    IF i > Len(s) THEN <<cur>>
    ELSE IF s[i] = SLASH THEN <<cur>> \o SplitFrom(s, i + 1, <<>>)
    ELSE SplitFrom(s, i + 1, Append(cur, s[i]))

Split(s) == SplitFrom(s, 1, <<>>)

RECURSIVE JoinSegs(_)
JoinSegs(segs) ==
    IF segs = <<>> THEN <<>>
    ELSE IF Len(segs) = 1 THEN segs[1]
    ELSE segs[1] \o <<SLASH>> \o JoinSegs(Tail(segs))

SeqToSet(s) == {s[i] : i \in 1..Len(s)}

\* ------------------------------------------------------------------------
\* std::path::Path
\* ------------------------------------------------------------------------

IsAbsolute(p) == p # <<>> /\ p[1] = SLASH

\* Path::components: the non-empty pieces; "." pieces are dropped except a
\* leading one of a relative path.
Components(p) ==
    LET segs == Split(p)
        body == SelectSeq(segs, LAMBDA s : s # <<>> /\ s # <<DOT>>)
    IN IF ~IsAbsolute(p) /\ segs[1] = <<DOT>> THEN << <<DOT>> >> \o body ELSE body

\* Path::join: an absolute right-hand side replaces the left-hand side.
PathJoin(base, rel) ==
    IF IsAbsolute(rel) THEN rel
    ELSE IF base = <<>> THEN rel
    ELSE IF base[Len(base)] = SLASH THEN base \o rel
    ELSE base \o <<SLASH>> \o rel

\* Path::parent: the path without its last component; None for "/" and "".
PathParent(p) ==
    LET comps == Components(p)
    IN IF comps = <<>> THEN None
       ELSE LET rest == JoinSegs(SubSeq(comps, 1, Len(comps) - 1))
            IN Some(IF IsAbsolute(p) THEN <<SLASH>> \o rest ELSE rest)

\* Path::file_name: the last component (None when it is ".." or missing).
FileName(p) ==
    LET comps == Components(p)
    IN IF comps = <<>> \/ comps[Len(comps)] = <<DOT, DOT>> THEN None
       ELSE Some(comps[Len(comps)])

\* Path::strip_prefix: component-wise; None when base is no prefix of p.
StripPrefix(p, base) ==
    LET pc == Components(p)
        bc == Components(base)
    IN IF IsAbsolute(p) = IsAbsolute(base) /\ StartsWith(pc, bc)
       THEN Some(JoinSegs(Drop(pc, Len(bc))))
       ELSE None

\* ------------------------------------------------------------------------
\* glob::Pattern, as used through Pattern::new and Pattern::matches
\* (default MatchOptions: case sensitive, '*' and '?' may match '/').
\* ------------------------------------------------------------------------

STAR == "*"
QUESTION == "?"
LBRACKET == "["
RBRACKET == "]"
BANG == "!"

Tok(kind, arg) == [t |-> kind, c |-> arg]

\* Index of the first occurrence of c in s at or after position i, 0 if none.
RECURSIVE IndexFrom(_, _, _)
IndexFrom(s, c, i) ==
    IF i > Len(s) THEN 0
    ELSE IF s[i] = c THEN i
    ELSE IndexFrom(s, c, i + 1)

\* Number of consecutive '*' starting at position i.
RECURSIVE StarRun(_, _)
StarRun(s, i) ==
    IF i <= Len(s) /\ s[i] = STAR THEN 1 + StarRun(s, i + 1) ELSE 0

\* Pattern::new: the token list, or None for a pattern error ("***", a "**"
\* that is not a whole path component, an unclosed "[").  Bracket
\* expressions list single characters.
RECURSIVE PatternTokens(_, _, _)
PatternTokens(pat, i, tokens) ==
    IF i > Len(pat) THEN Some(tokens)
    ELSE IF pat[i] = QUESTION
    THEN PatternTokens(pat, i + 1, Append(tokens, Tok("AnyChar", {})))
    ELSE IF pat[i] = STAR
    THEN LET count == StarRun(pat, i)
             j == i + count
         IN IF count > 2 THEN None
            ELSE IF count = 2
            THEN IF i = 1 \/ pat[i - 1] = SLASH
                 THEN LET dup == Len(tokens) > 1
                                 /\ tokens[Len(tokens)].t = "AnyRecursiveSequence"
                          next == IF dup THEN tokens
                                  ELSE Append(tokens, Tok("AnyRecursiveSequence", {}))
                      IN IF j <= Len(pat) /\ pat[j] = SLASH
                         THEN PatternTokens(pat, j + 1, next)
                         ELSE IF j > Len(pat)
                         THEN PatternTokens(pat, j, next)
                         ELSE None
                 ELSE None
            ELSE PatternTokens(pat, j, Append(tokens, Tok("AnySequence", {})))
    ELSE IF pat[i] = LBRACKET
    THEN IF i + 3 <= Len(pat) /\ pat[i + 1] = BANG
         THEN LET close == IndexFrom(pat, RBRACKET, i + 3)
              IN IF close = 0 THEN None
                 ELSE PatternTokens(pat, close + 1,
                        Append(tokens, Tok("AnyExcept", SeqToSet(SubSeq(pat, i + 2, close - 1)))))
         ELSE IF i + 2 <= Len(pat) /\ pat[i + 1] # BANG
         THEN LET close == IndexFrom(pat, RBRACKET, i + 2)
              IN IF close = 0 THEN None
                 ELSE PatternTokens(pat, close + 1,
                        Append(tokens, Tok("AnyWithin", SeqToSet(SubSeq(pat, i + 1, close - 1)))))
         ELSE None
    ELSE PatternTokens(pat, i + 1, Append(tokens, Tok("Char", {pat[i]})))

PatternNew(pat) == PatternTokens(pat, 1, <<>>)

TokenAccepts(tok, c) ==
    CASE tok.t = "AnyChar" -> TRUE
      [] tok.t = "AnyWithin" -> c \in tok.c
      [] tok.t = "AnyExcept" -> c \notin tok.c
      [] tok.t = "Char" -> c \in tok.c

\* Pattern::matches_from: "Match", "SubPatternDoesntMatch" or
\* "EntirePatternDoesntMatch".  WildcardLoop is the loop that lets a '*' or
\* '**' token swallow one more character at a time; '**' only stops right
\* after a separator.
RECURSIVE MatchesFrom(_, _, _, _)
RECURSIVE WildcardLoop(_, _, _, _)
WildcardLoop(tokens, i, file, follows_separator) ==
    IF file = <<>> THEN MatchesFrom(tokens, i + 1, file, follows_separator)
    ELSE LET sep == Head(file) = SLASH
         IN IF tokens[i].t = "AnyRecursiveSequence" /\ ~sep
            THEN WildcardLoop(tokens, i, Tail(file), sep)
            ELSE LET m == MatchesFrom(tokens, i + 1, Tail(file), sep)
                 IN IF m # "SubPatternDoesntMatch" THEN m
                    ELSE WildcardLoop(tokens, i, Tail(file), sep)

MatchesFrom(tokens, i, file, follows_separator) ==
    IF i > Len(tokens)
    THEN IF file = <<>> THEN "Match" ELSE "SubPatternDoesntMatch"
    ELSE IF tokens[i].t \in {"AnySequence", "AnyRecursiveSequence"}
    THEN LET empty == MatchesFrom(tokens, i + 1, file, follows_separator)
         IN IF empty # "SubPatternDoesntMatch" THEN empty
            ELSE WildcardLoop(tokens, i, file, follows_separator)
    ELSE IF file = <<>> THEN "EntirePatternDoesntMatch"
    ELSE IF ~TokenAccepts(tokens[i], Head(file)) THEN "SubPatternDoesntMatch"
    ELSE MatchesFrom(tokens, i + 1, Tail(file), Head(file) = SLASH)

\* Pattern::matches
PatternMatches(tokens, str) == MatchesFrom(tokens, 1, str, TRUE) = "Match"

\* ------------------------------------------------------------------------
\* State
\* ------------------------------------------------------------------------

VARIABLES
    fs,           \* the audited tree: canonical absolute path -> [kind, content]
    root,         \* the project directory handed to lint
    config,       \* the loaded configuration
    pc,           \* where the run stands
    all_files,    \* the walked file list
    index,        \* the import graph: canonical target -> importers
    pair,         \* the next (file, rule) pair of the organization pass
    diagnostics,  \* the diagnostic collection
    call          \* the last call of a utility function and what it returned

vars == <<fs, root, config, pc, all_files, index, pair, diagnostics, call>>

\* ------------------------------------------------------------------------
\* The filesystem as the operating system resolves it
\* ------------------------------------------------------------------------

\* The process's working directory, against which relative paths resolve.
Cwd == <<"/", "r">>

\* The order in which read_dir lists the entries of any directory.
DirOrder ==
    <<<<"a", "p", "p">>, <<"c">>, <<"c", ".", "t", "s">>, <<"l">>, <<"l", "s">>, <<"i", "n", "d", "e", "x", ".", "t", "s", "x">>, <<"i", "n", "d", "e", "x", ".", "t", "s">>, <<"p", ".", "t", "s">>, <<"q", ".", "t", "s">>,
      <<"B", ".", "c", "j", "s">>, <<"B", ".", "t", "s", "x">>, <<"B", ".", "t", "s">>, <<"B", ".", "m", "d">>, <<"B">>,
      <<"n", "a", "e", "c", "h", "s", "t", "e", ".", "j", "s", "o", "n">>, <<"n", "a", "e", "c", "h", "s", "t", "e", ".", "y", "a", "m", "l">>,
      <<".", "n", "a", "e", "c", "h", "s", "t", "e", ".", "c", "o", "n", "f", "i", "g", ".", "j", "s", "o", "n">>, <<"n", "o", "d", "e", "_", "m", "o", "d", "u", "l", "e", "s">>, <<"o", "u", "t">>, <<"w">>, <<"n", ".", "m", "d">>, <<"B", ".", "t", "e", "s", "t", ".", "t", "s", "x">>>>

ChildPath(dir, name) == IF dir = <<SLASH>> THEN dir \o name ELSE dir \o <<SLASH>> \o name

CanonParent(canon) ==
    LET comps == Components(canon)
    IN IF comps = <<>> THEN <<SLASH>>
       ELSE <<SLASH>> \o JoinSegs(SubSeq(comps, 1, Len(comps) - 1))

\* A directory is of kind "dir", or "locked_dir" when it may be stepped through
\* but not listed; a file is of kind "file", or "locked" when it may not be
\* read.
IsDirCanon(canon) ==
    canon = <<SLASH>> \/ (canon \in DOMAIN fs /\ fs[canon].kind \in {"dir", "locked_dir"})

\* Path resolution, one segment at a time: "." stays, ".." goes up, a name
\* must exist, and only a directory can be stepped through.  None when the
\* path names nothing.
RECURSIVE ResolveSegs(_, _)
ResolveSegs(cur, segs) ==
    IF segs = <<>> THEN Some(cur)
    ELSE IF ~IsDirCanon(cur) THEN None
    ELSE IF Head(segs) = <<>> \/ Head(segs) = <<DOT>> THEN ResolveSegs(cur, Tail(segs))
    ELSE IF Head(segs) = <<DOT, DOT>> THEN ResolveSegs(CanonParent(cur), Tail(segs))
    ELSE LET next == ChildPath(cur, Head(segs))
         IN IF next \in DOMAIN fs THEN ResolveSegs(next, Tail(segs)) ELSE None

\* fs::canonicalize
Canonicalize(p) ==
    IF p = <<>> THEN None
    ELSE ResolveSegs(IF IsAbsolute(p) THEN <<SLASH>> ELSE Cwd, Split(p))

\* Path::exists, Path::is_file, Path::is_dir
Exists(p) == IsSome(Canonicalize(p))

IsFile(p) ==
    LET canon == Canonicalize(p)
    IN IsSome(canon) /\ ~IsDirCanon(Unwrap(canon))

IsDir(p) ==
    LET canon == Canonicalize(p)
    IN IsSome(canon) /\ IsDirCanon(Unwrap(canon))

\* fs::read_dir: the entry names of a directory in listing order, None when
\* the path is no directory.
ReadDir(dir) ==
    LET canon == Canonicalize(dir)
    IN IF ~IsSome(canon) \/ ~IsDirCanon(Unwrap(canon)) THEN None
       ELSE IF Unwrap(canon) \in DOMAIN fs /\ fs[Unwrap(canon)].kind = "locked_dir" THEN None
       ELSE Some(SelectSeq(DirOrder,
                           LAMBDA name : ChildPath(Unwrap(canon), name) \in DOMAIN fs))

\* fs::read_to_string: the statements of a file, None when the path is no
\* readable file.
ReadToString(p) ==
    LET canon == Canonicalize(p)
    IN IF ~IsSome(canon) \/ IsDirCanon(Unwrap(canon)) THEN None
       ELSE IF fs[Unwrap(canon)].kind = "locked" THEN None
       ELSE Some(fs[Unwrap(canon)].content)

\* ------------------------------------------------------------------------
\* utils.rs
\* ------------------------------------------------------------------------

AT == "@"

\* The path a pattern or prefix is compared with: relative to base_path when
\* the path lies under it, the path as it is otherwise.
RelativeTo(path, base_path) ==
    IF IsSome(StripPrefix(path, base_path)) THEN Unwrap(StripPrefix(path, base_path))
    ELSE path

\* matches_glob taking "**/<rest>" for "the path ends in <rest>".
matches_glob_suffix(path, pattern, base_path) ==
    LET path_str == RelativeTo(path, base_path)
        glob_pattern == PatternNew(pattern)
    IN IF StartsWith(pattern, <<STAR, STAR, SLASH>>)
       THEN IsSome(PatternNew(Drop(pattern, 3)))
            /\ \E i \in 0..Len(path_str) :
                   PatternMatches(Unwrap(PatternNew(Drop(pattern, 3))), Drop(path_str, i))
       ELSE IF IsSome(glob_pattern)
       THEN \/ PatternMatches(Unwrap(glob_pattern), path_str)
            \/ PatternMatches(Unwrap(glob_pattern), <<SLASH>> \o path_str)
       ELSE FALSE

\* matches_glob letting a pattern that does not compile match every path.
matches_glob_lenient(path, pattern, base_path) ==
    LET path_str == RelativeTo(path, base_path)
        glob_pattern == PatternNew(pattern)
    IN IF IsSome(glob_pattern)
       THEN \/ PatternMatches(Unwrap(glob_pattern), path_str)
            \/ PatternMatches(Unwrap(glob_pattern), <<SLASH>> \o path_str)
       ELSE TRUE

matches_glob(path, pattern, base_path) ==
    LET path_str == RelativeTo(path, base_path)
        glob_pattern == PatternNew(pattern)
    IN IF IsSome(glob_pattern)
       THEN \/ PatternMatches(Unwrap(glob_pattern), path_str)
            \/ PatternMatches(Unwrap(glob_pattern), <<SLASH>> \o path_str)
       ELSE FALSE

\* is_excluded looking at the first pattern only.
is_excluded_first(path, exclude_patterns, base_path) ==
    /\ exclude_patterns # <<>>
    /\ matches_glob(path, exclude_patterns[1], base_path)

\* is_excluded with `all` in place of `any`.
is_excluded_all(path, exclude_patterns, base_path) ==
    /\ exclude_patterns # <<>>
    /\ \A i \in 1..Len(exclude_patterns) : matches_glob(path, exclude_patterns[i], base_path)

is_excluded(path, exclude_patterns, base_path) ==
    \E i \in 1..Len(exclude_patterns) : matches_glob(path, exclude_patterns[i], base_path)

\* find_sibling_by_glob comparing the entry name with the pattern's text.
find_sibling_by_name(dir, glob_pattern) ==
    LET entries == ReadDir(dir)
    IN IF IsSome(PatternNew(glob_pattern)) /\ IsSome(entries)
       THEN LET hits == SelectSeq(Unwrap(entries), LAMBDA name : name = glob_pattern)
            IN [i \in 1..Len(hits) |-> PathJoin(dir, hits[i])]
       ELSE <<>>

\* find_sibling_by_glob returning regular files only.
find_sibling_by_glob_files(dir, glob_pattern) ==
    LET pattern == PatternNew(glob_pattern)
        entries == ReadDir(dir)
    IN IF IsSome(pattern) /\ IsSome(entries)
       THEN LET hits == SelectSeq(Unwrap(entries),
                            LAMBDA name : /\ PatternMatches(Unwrap(pattern), name)
                                          /\ IsFile(PathJoin(dir, name)))
            IN [i \in 1..Len(hits) |-> PathJoin(dir, hits[i])]
       ELSE <<>>

\* The paths of the entries of dir whose file name matches the glob.
find_sibling_by_glob(dir, glob_pattern) ==
    LET pattern == PatternNew(glob_pattern)
        entries == ReadDir(dir)
    IN IF IsSome(pattern) /\ IsSome(entries)
       THEN LET hits == SelectSeq(Unwrap(entries),
                            LAMBDA name : PatternMatches(Unwrap(pattern), name))
            IN [i \in 1..Len(hits) |-> PathJoin(dir, hits[i])]
       ELSE <<>>

\* extract_imports returning the specifiers in the order of the text.
extract_imports_text_order(file_path) ==
    LET content == ReadToString(file_path)
    IN IF ~IsSome(content) THEN <<>>
       ELSE LET all == SelectSeq(Unwrap(content),
                           LAMBDA line : line.kind \in {"import", "require", "export"})
            IN [i \in 1..Len(all) |-> all[i].arg]

\* The specifiers of a file: every `import .. from`, then every `require(..)`,
\* then every `export .. from`; nothing for a file that cannot be read.
extract_imports(file_path) ==
    LET content == ReadToString(file_path)
    IN IF ~IsSome(content) THEN <<>>
       ELSE LET Of(kind) == SelectSeq(Unwrap(content), LAMBDA line : line.kind = kind)
                all == Of("import") \o Of("require") \o Of("export")
            IN [i \in 1..Len(all) |-> all[i].arg]

\* resolve_import_path giving up on a candidate that is not on disk.
resolve_import_path_existing(import_specifier, importer_file, project_root) ==
    LET candidate ==
            IF StartsWith(import_specifier, <<AT, SLASH>>)
            THEN Some(PathJoin(project_root, Drop(import_specifier, 2)))
            ELSE IF \/ StartsWith(import_specifier, <<DOT, SLASH>>)
                    \/ StartsWith(import_specifier, <<DOT, DOT, SLASH>>)
            THEN IF IsSome(PathParent(importer_file))
                 THEN Some(PathJoin(Unwrap(PathParent(importer_file)), import_specifier))
                 ELSE None
            ELSE None
    IN IF IsSome(candidate) /\ Exists(Unwrap(candidate)) THEN candidate ELSE None

resolve_import_path(import_specifier, importer_file, project_root) ==
    IF StartsWith(import_specifier, <<AT, SLASH>>)
    THEN Some(PathJoin(project_root, Drop(import_specifier, 2)))
    ELSE IF \/ StartsWith(import_specifier, <<DOT, SLASH>>)
            \/ StartsWith(import_specifier, <<DOT, DOT, SLASH>>)
    THEN IF IsSome(PathParent(importer_file))
         THEN Some(PathJoin(Unwrap(PathParent(importer_file)), import_specifier))
         ELSE None
    ELSE None

\* The extensions resolve_to_actual_file appends, in probing order.
Extensions == <<<<>>, <<".", "t", "s">>, <<".", "t", "s", "x">>, <<".", "j", "s">>, <<".", "j", "s", "x">>, <<".", "m", "j", "s">>, <<".", "c", "j", "s">>>>
IndexExtensions == Tail(Extensions)

\* The first element of a sequence of paths that is a regular file.
RECURSIVE FirstFile(_)
FirstFile(candidates) ==
    IF candidates = <<>> THEN None
    ELSE IF IsFile(Head(candidates)) THEN Some(Head(candidates))
    ELSE FirstFile(Tail(candidates))

\* resolve_to_actual_file probing the index files of a directory first.
resolve_to_actual_file_index_first(base_path) ==
    LET inside == IF IsDir(base_path)
                  THEN FirstFile([i \in 1..Len(IndexExtensions) |->
                                     PathJoin(base_path, <<"i", "n", "d", "e", "x">> \o IndexExtensions[i])])
                  ELSE None
    IN IF IsSome(inside) THEN inside
       ELSE FirstFile([i \in 1..Len(Extensions) |-> base_path \o Extensions[i]])

resolve_to_actual_file(base_path) ==
    LET direct == FirstFile([i \in 1..Len(Extensions) |-> base_path \o Extensions[i]])
    IN IF IsSome(direct) THEN direct
       ELSE IF IsDir(base_path)
       THEN FirstFile([i \in 1..Len(IndexExtensions) |->
                          PathJoin(base_path, <<"i", "n", "d", "e", "x">> \o IndexExtensions[i])])
       ELSE None

\* IndexPush keeping an importer once under a key.
IndexPushOnce(idx, key, importer) ==
    IF key \in DOMAIN idx
    THEN IF importer \in SeqToSet(idx[key]) THEN idx
         ELSE [idx EXCEPT ![key] = Append(@, importer)]
    ELSE [k \in DOMAIN idx \cup {key} |-> IF k = key THEN <<importer>> ELSE idx[k]]

\* index.entry(key).or_insert_with(Vec::new).push(importer)
IndexPush(idx, key, importer) ==
    IF key \in DOMAIN idx
    THEN [idx EXCEPT ![key] = Append(@, importer)]
    ELSE [k \in DOMAIN idx \cup {key} |-> IF k = key THEN <<importer>> ELSE idx[k]]

\* ImportTarget keying the map by the path as the probe spelled it.
ImportTargetSpelled(import_spec, importer, project_root) ==
    LET resolved == resolve_import_path(import_spec, importer, project_root)
    IN IF ~IsSome(resolved) THEN None
       ELSE resolve_to_actual_file(Unwrap(resolved))

\* The map key of one specifier of one importer, None when it is dropped.
ImportTarget(import_spec, importer, project_root) ==
    LET resolved == resolve_import_path(import_spec, importer, project_root)
    IN IF ~IsSome(resolved) THEN None
       ELSE LET actual_file == resolve_to_actual_file(Unwrap(resolved))
            IN IF ~IsSome(actual_file) THEN None
               ELSE IF IsSome(Canonicalize(Unwrap(actual_file)))
               THEN Canonicalize(Unwrap(actual_file))
               ELSE actual_file

RECURSIVE IndexImports(_, _, _, _)
IndexImports(idx, importer, imports, project_root) ==
    IF imports = <<>> THEN idx
    ELSE LET target == ImportTarget(Head(imports), importer, project_root)
         IN IndexImports(IF IsSome(target) THEN IndexPush(idx, Unwrap(target), importer)
                         ELSE idx,
                         importer, Tail(imports), project_root)

RECURSIVE IndexFiles(_, _, _)
IndexFiles(idx, files, project_root) ==
    IF files = <<>> THEN idx
    ELSE IndexFiles(IndexImports(idx, Head(files), extract_imports(Head(files)), project_root),
                    Tail(files), project_root)

EmptyIndex == [k \in {} |-> <<>>]

build_import_index(files, project_root) == IndexFiles(EmptyIndex, files, project_root)

PrefixCovers(path_str, prefix) ==
    LET normalized_prefix == TrimEnd(TrimStart(prefix, SLASH), SLASH)
    IN \/ StartsWith(path_str, normalized_prefix)
       \/ StartsWith(path_str, normalized_prefix \o <<SLASH>>)

is_under_any_prefix(path, prefixes, base_path) ==
    LET path_str == RelativeTo(path, base_path)
    IN \E i \in 1..Len(prefixes) : PrefixCovers(path_str, prefixes[i])

\* ------------------------------------------------------------------------
\* config.rs
\* ------------------------------------------------------------------------

default_max_depth == 3

default_filename_style == "KebabCase"

DefaultRuleOptions ==
    [max_nesting_depth |-> default_max_depth,
     filename_style |-> default_filename_style,
     require_test_files |-> FALSE,
     require_story_files |-> FALSE,
     companion_file_patterns |-> [integration_tests |-> <<>>,
                                  page_user_scenarios |-> <<>>,
                                  custom |-> <<>>],
     file_organization_checks |-> <<>>]

\* default_rule_config with every rule an error.
default_rule_config_strict == [severity |-> "error", options |-> DefaultRuleOptions]

default_rule_config == [severity |-> "warn", options |-> DefaultRuleOptions]

DefaultConfig ==
    [rules |-> [server_side_exports |-> default_rule_config,
                component_nesting_depth |-> default_rule_config,
                filename_style_consistency |-> default_rule_config,
                missing_companion_files |-> default_rule_config,
                file_organization |-> default_rule_config]]

\* Config::load: the configuration a file holds, None when the file cannot
\* be read or its text is no configuration in any of the accepted formats.
\* The text of a configuration file is one line of kind "config" whose
\* argument is the configuration it spells.
ConfigLoad(path) ==
    LET contents == ReadToString(path)
    IN IF ~IsSome(contents) THEN None
       ELSE IF Len(Unwrap(contents)) = 1 /\ Unwrap(contents)[1].kind = "config"
       THEN Some(Unwrap(contents)[1].arg)
       ELSE None

\* ------------------------------------------------------------------------
\* diagnostics.rs
\* ------------------------------------------------------------------------

\* has_errors counting a warning as an error.
has_errors_any(collection) == collection # <<>>

has_errors(collection) ==
    \E i \in 1..Len(collection) : collection[i].severity = "error"

Diagnostic(severity, rule, message, file) ==
    [severity |-> severity, rule |-> rule, message |-> message, file |-> file,
     line |-> None]

\* DiagnosticCollection::new: no diagnostics.
new == <<>>

\* add that puts the diagnostic in front of the earlier ones.
add_front(collection, diagnostic) == <<diagnostic>> \o collection

\* DiagnosticCollection::add: Vec::push.
add(collection, diagnostic) == Append(collection, diagnostic)

error_count(collection) ==
    Len(SelectSeq(collection, LAMBDA d : d.severity = "error"))

warning_count(collection) ==
    Len(SelectSeq(collection, LAMBDA d : d.severity = "warn"))

\* ------------------------------------------------------------------------
\* rules.rs: the per-file rules
\* ------------------------------------------------------------------------

\* Index of the first occurrence of needle in s, 0 if none (str::find).
RECURSIVE FindFrom(_, _, _)
FindFrom(s, needle, i) ==
    IF i + Len(needle) - 1 > Len(s) THEN 0
    ELSE IF SubSeq(s, i, i + Len(needle) - 1) = needle THEN i
    ELSE FindFrom(s, needle, i + 1)

Find(s, needle) == FindFrom(s, needle, 1)

Contains(s, needle) == Find(s, needle) > 0

\* Path::file_stem and Path::extension of a file name.
RECURSIVE LastDot(_, _)
LastDot(name, i) ==
    IF i = 0 THEN 0 ELSE IF name[i] = DOT THEN i ELSE LastDot(name, i - 1)

FileStem(p) ==
    IF ~IsSome(FileName(p)) THEN None
    ELSE LET name == Unwrap(FileName(p))
             dot == LastDot(name, Len(name))
         IN IF dot <= 1 THEN Some(name) ELSE Some(SubSeq(name, 1, dot - 1))

Extension(p) ==
    IF ~IsSome(FileName(p)) THEN None
    ELSE LET name == Unwrap(FileName(p))
             dot == LastDot(name, Len(name))
         IN IF dot <= 1 THEN None ELSE Some(Drop(name, dot))

server_exports == <<<<"g", "e", "t", "S", "e", "r", "v", "e", "r", "S", "i", "d", "e", "P", "r", "o", "p", "s">>, <<"g", "e", "t", "S", "t", "a", "t", "i", "c", "P", "r", "o", "p", "s">>, <<"g", "e", "t", "S", "t", "a", "t", "i", "c", "P", "a", "t", "h", "s">>,
                    <<"g", "e", "t", "I", "n", "i", "t", "i", "a", "l", "P", "r", "o", "p", "s">>>>

\* A file's text is a sequence of lines [kind, arg]: the directive line
\* "use client", a declaration `export const <arg>`, an import, require or
\* export-from of specifier <arg>, or a line of kind "text" whose argument is
\* the characters of the line.
WhiteSpace == {" ", "\t", "\n", "\r"}

\* str::trim
RECURSIVE Trim(_)
Trim(s) ==
    IF s = <<>> THEN s
    ELSE IF Head(s) \in WhiteSpace THEN Trim(Tail(s))
    ELSE IF s[Len(s)] \in WhiteSpace THEN Trim(SubSeq(s, 1, Len(s) - 1))
    ELSE s

\* The characters of a line.  An import, require or export-from statement
\* holds neither the directive nor an export declaration and is left blank.
LineText(line) ==
    CASE line.kind = "text" -> line.arg
      [] line.kind = "use client" -> <<"'", "u", "s", "e", " ", "c", "l", "i", "e", "n", "t", "'">>
      [] line.kind = "export_decl" -> <<"e", "x", "p", "o", "r", "t", " ", "c", "o", "n", "s", "t", " ">> \o line.arg
      [] OTHER -> <<>>

\* The content read_to_string returns: the lines, each ended by a newline.
RECURSIVE JoinLines(_)
JoinLines(lines) ==
    IF lines = <<>> THEN <<>>
    ELSE LineText(Head(lines)) \o <<"\n">> \o JoinLines(Tail(lines))

HasAt(text, i, word) ==
    /\ i + Len(word) - 1 <= Len(text)
    /\ SubSeq(text, i, i + Len(word) - 1) = word

\* The index after the run of whitespace that starts at i (\s+ matches when
\* the index moved).
RECURSIVE SkipWhite(_, _)
SkipWhite(text, i) ==
    IF i <= Len(text) /\ text[i] \in WhiteSpace THEN SkipWhite(text, i + 1) ELSE i

\* The indices after a match of (const|function|async\s+function) at k.
KeywordEnds(text, k) ==
    (IF HasAt(text, k, <<"c", "o", "n", "s", "t">>) THEN {k + 5} ELSE {})
    \cup (IF HasAt(text, k, <<"f", "u", "n", "c", "t", "i", "o", "n">>) THEN {k + 8} ELSE {})
    \cup (IF /\ HasAt(text, k, <<"a", "s", "y", "n", "c">>)
             /\ SkipWhite(text, k + 5) > k + 5
             /\ HasAt(text, SkipWhite(text, k + 5), <<"f", "u", "n", "c", "t", "i", "o", "n">>)
          THEN {SkipWhite(text, k + 5) + 8} ELSE {})

\* Regex::new(r"export\s+(const|function|async\s+function)\s+<export>")
\* .is_match(content): the pattern is unanchored and ends with the name.
ExportPatternMatches(content, export) ==
    \E i \in 1..Len(content) :
        /\ HasAt(content, i, <<"e", "x", "p", "o", "r", "t">>)
        /\ SkipWhite(content, i + 6) > i + 6
        /\ \E after \in KeywordEnds(content, SkipWhite(content, i + 6)) :
               /\ SkipWhite(content, after) > after
               /\ HasAt(content, SkipWhite(content, after), export)

check_server_side_exports(path, cfg) ==
    LET content == ReadToString(path)
    IN IF ~IsSome(content) THEN <<>>
       ELSE LET lines == Unwrap(content)
                has_use_client ==
                    \E i \in 1..Len(lines) :
                        Trim(LineText(lines[i])) \in {<<"'", "u", "s", "e", " ", "c", "l", "i", "e", "n", "t", "'">>, <<"\"", "u", "s", "e", " ", "c", "l", "i", "e", "n", "t", "\"">>}
                found == SelectSeq(server_exports,
                             LAMBDA export : ExportPatternMatches(JoinLines(lines), export))
            IN IF ~has_use_client THEN <<>>
               ELSE [i \in 1..Len(found) |->
                        Diagnostic(cfg.rules.server_side_exports.severity,
                                   <<"server-side-exports">>, <<"export", found[i]>>, path)]

count_depth(path_part) == Len(SelectSeq(Split(path_part), LAMBDA seg : seg # <<>>))

\* check_component_nesting_depth reporting a depth equal to the maximum too.
check_component_nesting_depth_inclusive(path, cfg) ==
    LET app == Find(path, <<"/", "a", "p", "p", "/">>)
        pages == Find(path, <<"/", "p", "a", "g", "e", "s", "/">>)
        depth == IF app > 0 THEN count_depth(Drop(path, app + 4))
                 ELSE count_depth(Drop(path, pages + 6))
        max_depth == cfg.rules.component_nesting_depth.options.max_nesting_depth
    IN IF app = 0 /\ pages = 0 THEN <<>>
       ELSE IF depth >= max_depth
       THEN <<Diagnostic(cfg.rules.component_nesting_depth.severity,
                         <<"component-nesting-depth">>, <<"depth", depth, max_depth>>, path)>>
       ELSE <<>>

check_component_nesting_depth(path, cfg) ==
    LET app == Find(path, <<"/", "a", "p", "p", "/">>)
        pages == Find(path, <<"/", "p", "a", "g", "e", "s", "/">>)
        depth == IF app > 0 THEN count_depth(Drop(path, app + 4))
                 ELSE count_depth(Drop(path, pages + 6))
        max_depth == cfg.rules.component_nesting_depth.options.max_nesting_depth
    IN IF app = 0 /\ pages = 0 THEN <<>>
       ELSE IF depth > max_depth
       THEN <<Diagnostic(cfg.rules.component_nesting_depth.severity,
                         <<"component-nesting-depth">>, <<"depth", depth, max_depth>>, path)>>
       ELSE <<>>

special_files == <<<<"p", "a", "g", "e">>,
                  <<"l", "a", "y", "o", "u", "t">>,
                  <<"t", "e", "m", "p", "l", "a", "t", "e">>,
                  <<"l", "o", "a", "d", "i", "n", "g">>,
                  <<"e", "r", "r", "o", "r">>,
                  <<"n", "o", "t", "-", "f", "o", "u", "n", "d">>,
                  <<"r", "o", "u", "t", "e">>,
                  <<"d", "e", "f", "a", "u", "l", "t">>,
                  <<"m", "i", "d", "d", "l", "e", "w", "a", "r", "e">>,
                  <<"n", "e", "x", "t", ".", "c", "o", "n", "f", "i", "g">>,
                  <<"t", "a", "i", "l", "w", "i", "n", "d", ".", "c", "o", "n", "f", "i", "g">>,
                  <<"p", "o", "s", "t", "c", "s", "s", ".", "c", "o", "n", "f", "i", "g">>,
                  <<"e", "s", "l", "i", "n", "t", ".", "c", "o", "n", "f", "i", "g">>,
                  <<"t", "s", "c", "o", "n", "f", "i", "g">>,
                  <<"j", "s", "c", "o", "n", "f", "i", "g">>,
                  <<"v", "i", "t", "e", "s", "t", ".", "c", "o", "n", "f", "i", "g">>,
                  <<"j", "e", "s", "t", ".", "c", "o", "n", "f", "i", "g">>>>

LowerCase == {"a", "b", "c", "d", "e", "f", "g", "h", "i", "j", "k", "l", "m", "n", "o", "p", "q", "r", "s", "t", "u", "v", "w", "x", "y", "z"}
UpperCase == {"A", "B", "C", "D", "E", "F", "G", "H", "I", "J", "K", "L", "M", "N", "O", "P", "Q", "R", "S", "T", "U", "V", "W", "X", "Y", "Z"}
Digits == {"0", "1", "2", "3", "4", "5", "6", "7", "8", "9"}

\* ^[a-z][a-z0-9]*(<sep>[a-z0-9]+)*$
IsSeparatedLower(s, sep) ==
    /\ s # <<>>
    /\ s[1] \in LowerCase
    /\ \A i \in 1..Len(s) : s[i] \in LowerCase \cup Digits \cup {sep}
    /\ \A i \in 1..Len(s) : s[i] = sep => (i < Len(s) /\ s[i + 1] # sep)

\* is_kebab_case letting the first word begin with a digit as the later
\* words may.
is_kebab_case_words(s) ==
    /\ s # <<>>
    /\ s[1] # "-"
    /\ \A i \in 1..Len(s) : s[i] \in LowerCase \cup Digits \cup {"-"}
    /\ \A i \in 1..Len(s) : s[i] = "-" => (i < Len(s) /\ s[i + 1] # "-")

is_kebab_case(s) == IsSeparatedLower(s, "-")

is_snake_case(s) == IsSeparatedLower(s, "_")

is_camel_case(s) ==
    /\ s # <<>>
    /\ s[1] \in LowerCase
    /\ \A i \in 1..Len(s) : s[i] \in LowerCase \cup UpperCase \cup Digits
    /\ \E i \in 1..Len(s) : s[i] \in UpperCase

is_pascal_case(s) ==
    /\ s # <<>>
    /\ s[1] \in UpperCase
    /\ \A i \in 1..Len(s) : s[i] \in LowerCase \cup UpperCase \cup Digits
    /\ \E i \in 1..Len(s) : s[i] \in LowerCase

check_filename_style(path, cfg) ==
    IF ~IsSome(FileStem(path)) THEN <<>>
    ELSE LET filename == Unwrap(FileStem(path))
             expected_style == cfg.rules.filename_style_consistency.options.filename_style
             matches_style ==
                 CASE expected_style = "KebabCase" -> is_kebab_case(filename)
                   [] expected_style = "CamelCase" -> is_camel_case(filename)
                   [] expected_style = "PascalCase" -> is_pascal_case(filename)
                   [] expected_style = "SnakeCase" -> is_snake_case(filename)
         IN IF filename \in SeqToSet(special_files) THEN <<>>
            ELSE IF ~matches_style
            THEN <<Diagnostic(cfg.rules.filename_style_consistency.severity,
                              <<"filename-style-consistency">>,
                              <<"style", filename, expected_style>>, path)>>
            ELSE <<>>

\* str::replace: every occurrence of `from`, left to right.
RECURSIVE Replace(_, _, _)
Replace(s, from, to) ==
    IF s = <<>> THEN <<>>
    ELSE IF StartsWith(s, from) THEN to \o Replace(Drop(s, Len(from)), from, to)
    ELSE <<Head(s)>> \o Replace(Tail(s), from, to)

resolve_companion_pattern(pattern, file_stem, ext) ==
    Replace(Replace(pattern, <<"*">>, file_stem), <<"{", "e", "x", "t", "}">>, ext)

\* One 'missing-companion-files' diagnostic when none of the candidates
\* exists beside the file.
CompanionDiagnostic(candidates, parent, message, path, cfg) ==
    IF \E i \in 1..Len(candidates) : Exists(PathJoin(parent, candidates[i])) THEN <<>>
    ELSE <<Diagnostic(cfg.rules.missing_companion_files.severity,
                      <<"missing-companion-files">>, message, path)>>

\* The loop over the custom categories, in the iteration order of the map;
\* `custom` is the sequence of <<category, patterns>> in that order.
RECURSIVE CustomDiagnostics(_, _, _, _, _, _)
CustomDiagnostics(custom, parent, file_stem, ext, path, cfg) ==
    IF custom = <<>> THEN <<>>
    ELSE (IF Head(custom)[2] = <<>> THEN <<>>
          ELSE CompanionDiagnostic(
                   [i \in 1..Len(Head(custom)[2]) |->
                       resolve_companion_pattern(Head(custom)[2][i], file_stem, ext)],
                   parent, <<"custom", Head(custom)[1], file_stem>>, path, cfg))
         \o CustomDiagnostics(Tail(custom), parent, file_stem, ext, path, cfg)

check_missing_companion_files(path, cfg) ==
    LET options == cfg.rules.missing_companion_files.options
        patterns == options.companion_file_patterns
        has_custom_patterns == \/ patterns.integration_tests # <<>>
                               \/ patterns.page_user_scenarios # <<>>
                               \/ patterns.custom # <<>>
        ext == IF IsSome(Extension(path)) THEN Unwrap(Extension(path)) ELSE <<>>
        file_stem == IF IsSome(FileStem(path)) THEN Unwrap(FileStem(path)) ELSE <<>>
        filename == IF IsSome(FileName(path)) THEN Unwrap(FileName(path)) ELSE <<>>
        parent == IF IsSome(PathParent(path)) THEN Unwrap(PathParent(path)) ELSE <<>>
    IN IF ~options.require_test_files /\ ~options.require_story_files /\ ~has_custom_patterns
       THEN <<>>
       ELSE IF ext \notin {<<"t", "s", "x">>, <<"j", "s", "x">>, <<"t", "s">>, <<"j", "s">>} THEN <<>>
       ELSE IF \E suffix \in {<<".", "t", "e", "s", "t">>, <<".", "s", "p", "e", "c">>, <<".", "s", "t", "o", "r", "i", "e", "s">>, <<".", "s", "t", "o", "r", "y">>, <<".", "t", "e", "s", "t", ".", "i", "n", "t">>} :
                   EndsWith(file_stem, suffix)
       THEN <<>>
       ELSE (IF options.require_test_files
             THEN CompanionDiagnostic(<<file_stem \o <<".", "t", "e", "s", "t", ".">> \o ext,
                                        file_stem \o <<".", "s", "p", "e", "c", ".">> \o ext,
                                        <<"_", "_", "t", "e", "s", "t", "s", "_", "_", "/">> \o file_stem \o <<DOT>> \o ext>>,
                                      parent, <<"test", file_stem>>, path, cfg)
             ELSE <<>>)
            \o (IF options.require_story_files
                THEN CompanionDiagnostic(<<file_stem \o <<".", "s", "t", "o", "r", "i", "e", "s", ".">> \o ext,
                                           file_stem \o <<".", "s", "t", "o", "r", "y", ".">> \o ext>>,
                                         parent, <<"story", file_stem>>, path, cfg)
                ELSE <<>>)
            \o (IF patterns.integration_tests # <<>>
                THEN CompanionDiagnostic(
                         [i \in 1..Len(patterns.integration_tests) |->
                             resolve_companion_pattern(patterns.integration_tests[i],
                                                       file_stem, ext)],
                         parent, <<"integration test", file_stem>>, path, cfg)
                ELSE <<>>)
            \o (IF patterns.page_user_scenarios # <<>> /\ filename \in {<<"p", "a", "g", "e", ".", "t", "s", "x">>, <<"p", "a", "g", "e", ".", "j", "s", "x">>}
                THEN CompanionDiagnostic(patterns.page_user_scenarios, parent,
                                         <<"user scenario">>, path, cfg)
                ELSE <<>>)
            \o CustomDiagnostics(patterns.custom, parent, file_stem, ext, path, cfg)

\* ------------------------------------------------------------------------
\* rules.rs: the organization rules (check_file_organization)
\* ------------------------------------------------------------------------

CARET == "^"
LPAREN == "("
RPAREN == ")"

\* A regular expression of import_path_matches: literal text, optionally
\* anchored by a leading '^'.  An unbalanced parenthesis is a syntax error.
RegexNew(re) ==
    IF Contains(re, <<LPAREN>>) # Contains(re, <<RPAREN>>) THEN None
    ELSE IF re # <<>> /\ Head(re) = CARET
    THEN Some([anchored |-> TRUE, literal |-> Tail(re)])
    ELSE Some([anchored |-> FALSE, literal |-> re])

RegexIsMatch(re, text) ==
    IF re.anchored THEN StartsWith(text, re.literal) ELSE Contains(text, re.literal)

\* Step 1 of a (rule, file) pair: the include glob matches and no exclude
\* glob does.
RuleMatches(check, file, project_root) ==
    /\ matches_glob(file, check.match.glob, project_root)
    /\ ~is_excluded(file, check.match.exclude_glob, project_root)

\* Whether the companion a requirement asks for is there beside the file.
RequirementMet(req, file) ==
    LET parent == IF IsSome(PathParent(file)) THEN Unwrap(PathParent(file)) ELSE <<>>
    IN IF req.kind = "sibling_exact"
       THEN Exists(PathJoin(parent, req.name))
       ELSE find_sibling_by_glob(parent, req.glob) # <<>>

\* Step 2: one diagnostic per unmet requirement, in the order of `require`.
SiblingDiagnostics(check, file, severity) ==
    LET unmet == SelectSeq(check.require, LAMBDA req : ~RequirementMet(req, file))
    IN [i \in 1..Len(unmet) |->
           Diagnostic(severity, <<"file-organization", check.id>>,
                      <<"missing", unmet[i]>>, file)]

\* Whether an importer triggers the rule: it matches importer_glob and one of
\* its specifiers matches one of the regular expressions.
ImporterTriggers(when, importer, project_root) ==
    /\ matches_glob(importer, when.importer_glob, project_root)
    /\ \E i \in 1..Len(extract_imports(importer)) :
           \E j \in 1..Len(when.import_path_matches) :
               LET re == RegexNew(when.import_path_matches[j])
               IN IsSome(re) /\ RegexIsMatch(Unwrap(re), extract_imports(importer)[i])

\* LocationLoop going on to the next importer after a diagnostic.
RECURSIVE LocationLoopAll(_, _, _, _, _)
LocationLoopAll(check, file, importers, severity, project_root) ==
    IF importers = <<>> THEN <<>>
    ELSE (IF /\ ImporterTriggers(Unwrap(check.when_imported_by), Head(importers),
                                  project_root)
             /\ ~is_under_any_prefix(file, Unwrap(check.enforce_location).must_be_under,
                                     project_root)
          THEN <<Diagnostic(severity, <<"file-organization", check.id>>,
                            <<"location", Head(importers),
                              Unwrap(check.enforce_location).message>>, file)>>
          ELSE <<>>)
         \o LocationLoopAll(check, file, Tail(importers), severity, project_root)

\* Step 3 over the importers of the file, in index order: the first importer
\* that triggers the rule while the file is misplaced yields one diagnostic
\* and ends the loop.
RECURSIVE LocationLoop(_, _, _, _, _)
LocationLoop(check, file, importers, severity, project_root) ==
    IF importers = <<>> THEN <<>>
    ELSE IF /\ ImporterTriggers(Unwrap(check.when_imported_by), Head(importers), project_root)
            /\ ~is_under_any_prefix(file, Unwrap(check.enforce_location).must_be_under,
                                    project_root)
    THEN <<Diagnostic(severity, <<"file-organization", check.id>>,
                      <<"location", Head(importers),
                        Unwrap(check.enforce_location).message>>, file)>>
    ELSE LocationLoop(check, file, Tail(importers), severity, project_root)

LocationDiagnostics(check, file, idx, severity, project_root) ==
    IF ~IsSome(check.when_imported_by) \/ ~IsSome(check.enforce_location) THEN <<>>
    ELSE LET canonical == IF IsSome(Canonicalize(file)) THEN Unwrap(Canonicalize(file))
                          ELSE file
             importers == IF canonical \in DOMAIN idx THEN idx[canonical] ELSE <<>>
         IN LocationLoop(check, file, importers, severity, project_root)

\* The whole state machine of one (rule, file) pair.
EvaluateCheck(check, file, idx, severity, project_root) ==
    IF ~RuleMatches(check, file, project_root) THEN <<>>
    ELSE SiblingDiagnostics(check, file, severity)
         \o LocationDiagnostics(check, file, idx, severity, project_root)

\* ------------------------------------------------------------------------
\* linter.rs
\* ------------------------------------------------------------------------

ignored_dirs == <<<<"n", "o", "d", "e", "_", "m", "o", "d", "u", "l", "e", "s">>, <<".", "n", "e", "x", "t">>, <<".", "g", "i", "t">>, <<"d", "i", "s", "t">>, <<"b", "u", "i", "l", "d">>, <<"c", "o", "v", "e", "r", "a", "g", "e">>,
                  <<"o", "u", "t">>, <<".", "t", "u", "r", "b", "o">>>>

\* is_ignored looking at the last component only.
is_ignored_name(path) ==
    IsSome(FileName(path)) /\ Unwrap(FileName(path)) \in SeqToSet(ignored_dirs)

is_ignored(path) ==
    SeqToSet(Components(path)) \cap SeqToSet(ignored_dirs) # {}

relevant_extensions == {<<"j", "s">>, <<"j", "s", "x">>, <<"t", "s">>, <<"t", "s", "x">>, <<"m", "j", "s">>, <<"c", "j", "s">>}

\* is_relevant_file taking every file that has an extension.
is_relevant_file_any(path) == IsSome(Extension(path))

is_relevant_file(path) ==
    IsSome(Extension(path)) /\ Unwrap(Extension(path)) \in relevant_extensions

\* WalkDir::new(path).into_iter().filter_entry(|e| !is_ignored(e.path())):
\* the entries in depth-first order, an ignored entry pruned with all below it.
RECURSIVE Walk(_)
RECURSIVE WalkChildren(_, _)
WalkChildren(dir, names) ==
    IF names = <<>> THEN <<>>
    ELSE Walk(PathJoin(dir, Head(names))) \o WalkChildren(dir, Tail(names))

Walk(path) ==
    IF is_ignored(path) \/ ~Exists(path) THEN <<>>
    ELSE LET entries == ReadDir(path)
         IN <<path>> \o (IF IsSome(entries) THEN WalkChildren(path, Unwrap(entries))
                         ELSE <<>>)

\* The files the walk loop keeps, in walk order.
WalkedFiles(path) ==
    SelectSeq(Walk(path), LAMBDA file_path : IsFile(file_path) /\ is_relevant_file(file_path))

\* The per-file rules with the filename rule called first.
PerFileDiagnosticsStyleFirst(file_path, cfg) ==
    check_filename_style(file_path, cfg)
    \o check_server_side_exports(file_path, cfg)
    \o check_component_nesting_depth(file_path, cfg)

PerFileDiagnostics(file_path, cfg) ==
    check_server_side_exports(file_path, cfg)
    \o check_component_nesting_depth(file_path, cfg)
    \o check_filename_style(file_path, cfg)

\* WalkDiagnostics ending the loop at the first file that cannot be read.
RECURSIVE WalkDiagnosticsAborting(_, _)
WalkDiagnosticsAborting(files, cfg) ==
    IF files = <<>> THEN <<>>
    ELSE IF ~IsSome(ReadToString(Head(files))) THEN <<>>
    ELSE PerFileDiagnostics(Head(files), cfg) \o WalkDiagnosticsAborting(Tail(files), cfg)

RECURSIVE WalkDiagnostics(_, _)
WalkDiagnostics(files, cfg) ==
    IF files = <<>> THEN <<>>
    ELSE PerFileDiagnostics(Head(files), cfg) \o WalkDiagnostics(Tail(files), cfg)

Checks == config.rules.file_organization.options.file_organization_checks

\* LintWalk leaving a stamp of the run in the project directory.
LintWalkStamping ==
    /\ pc = "walk"
    /\ LET files == WalkedFiles(root)
       IN /\ all_files' = files
          /\ diagnostics' = diagnostics \o WalkDiagnostics(files, config)
    /\ fs' = [p \in DOMAIN fs \cup {PathJoin(root, <<".", "n", "a", "e", "c", "h", "s", "t", "e">>)} |->
                 IF p \in DOMAIN fs THEN fs[p] ELSE [kind |-> "file", content |-> <<>>]]
    /\ pc' = "organize"
    /\ UNCHANGED <<root, config, index, pair, call>>

\* LintWalk building the import graph while it walks.
LintWalkIndexing ==
    /\ pc = "walk"
    /\ LET files == WalkedFiles(root)
       IN /\ all_files' = files
          /\ diagnostics' = diagnostics \o WalkDiagnostics(files, config)
          /\ index' = build_import_index(files, root)
    /\ pc' = "organize"
    /\ UNCHANGED <<fs, root, config, pair, call>>

\* lint, lines 12-37: the walk loop with the per-file rules.
LintWalk ==
    /\ pc = "walk"
    /\ LET files == WalkedFiles(root)
       IN /\ all_files' = files
          /\ diagnostics' = diagnostics \o WalkDiagnostics(files, config)
    /\ pc' = "organize"
    /\ UNCHANGED <<fs, root, config, index, pair, call>>

\* check_file_organization begins: the import graph is built from the whole
\* file list.
OrgBuildIndex ==
    /\ pc = "organize"
    /\ index' = build_import_index(all_files, root)
    /\ pair' = [file |-> 1, rule |-> 1]
    /\ pc' = "evaluate"
    /\ UNCHANGED <<fs, root, config, all_files, diagnostics, call>>

PairsLeft == pair.file <= Len(all_files) /\ pair.rule <= Len(Checks)

\* OrgEvaluate letting the first rule that reports a file silence the rules
\* after it for that file.
OrgEvaluateFirstRuleWins ==
    /\ pc = "evaluate"
    /\ PairsLeft
    /\ diagnostics' =
           IF \E i \in 1..Len(diagnostics) :
                  /\ diagnostics[i].rule[1] = "file-organization"
                  /\ diagnostics[i].file = all_files[pair.file]
           THEN diagnostics
           ELSE diagnostics \o
                    EvaluateCheck(Checks[pair.rule], all_files[pair.file], index,
                                  config.rules.file_organization.severity, root)
    /\ pair' = IF pair.rule < Len(Checks)
               THEN [pair EXCEPT !.rule = @ + 1]
               ELSE [file |-> pair.file + 1, rule |-> 1]
    /\ UNCHANGED <<fs, root, config, pc, all_files, index, call>>

\* One (file, rule) pair is evaluated; pairs go file by file, rule by rule.
OrgEvaluate ==
    /\ pc = "evaluate"
    /\ PairsLeft
    /\ diagnostics' = diagnostics \o
           EvaluateCheck(Checks[pair.rule], all_files[pair.file], index,
                         config.rules.file_organization.severity, root)
    /\ pair' = IF pair.rule < Len(Checks)
               THEN [pair EXCEPT !.rule = @ + 1]
               ELSE [file |-> pair.file + 1, rule |-> 1]
    /\ UNCHANGED <<fs, root, config, pc, all_files, index, call>>

\* lint returns the collection.
LintReturn ==
    /\ pc = "evaluate"
    /\ ~PairsLeft
    /\ pc' = "done"
    /\ UNCHANGED <<fs, root, config, all_files, index, pair, diagnostics, call>>

\* ------------------------------------------------------------------------
\* The projects and configurations a run is checked on
\* ------------------------------------------------------------------------

MaxImports == 2

Line(kind, arg) == [kind |-> kind, arg |-> arg]
Dir == [kind |-> "dir", content |-> <<>>]
File(content) == [kind |-> "file", content |-> content]

ProjectRoot == <<"/", "r">>
AppPage == <<"/", "r", "/", "a", "p", "p", "/", "p", ".", "t", "s">>
LibButton == <<"/", "r", "/", "l", "/", "B", ".", "t", "s">>
LibButtonDoc == <<"/", "r", "/", "l", "/", "B", ".", "m", "d">>
LibsButton == <<"/", "r", "/", "l", "s", "/", "B", ".", "t", "s">>
ComponentsIndex == <<"/", "r", "/", "c", "/", "i", "n", "d", "e", "x", ".", "t", "s">>

\* The lines app/p.ts may hold, in text order.
PageLines == <<Line("require", <<".", ".", "/", "l", "/", "B", ".", "t", "s">>), Line("import", <<"@", "/", "l", "/", "B">>),
               Line("import", <<"@", "/", "l", "s", "/", "B">>), Line("export", <<"@", "/", "c">>), Line("import", <<"x">>)>>

PageContents ==
    {SelectSeq(PageLines, LAMBDA line : line \in keep) :
        keep \in {k \in SUBSET SeqToSet(PageLines) : Cardinality(k) <= MaxImports}}

OptionalFiles == {LibButtonDoc, LibsButton, ComponentsIndex}

FileContent(path, page) ==
    IF path = AppPage THEN page
    ELSE IF path = LibsButton THEN <<Line("import", <<".", ".", "/", "l", "/", "B">>)>>
    ELSE <<>>

Directories == {<<"/", "r">>, <<"/", "r", "/", "a", "p", "p">>, <<"/", "r", "/", "l">>, <<"/", "r", "/", "l", "s">>, <<"/", "r", "/", "c">>}

Tree(present, page) ==
    [p \in Directories \cup {AppPage, LibButton} \cup present |->
        IF p \in Directories THEN Dir ELSE File(FileContent(p, page))]

Trees == {Tree(present, page) : present \in SUBSET OptionalFiles, page \in PageContents}

SiblingExact(name) == [kind |-> "sibling_exact", name |-> name]
SiblingGlob(glob) == [kind |-> "sibling_glob", glob |-> glob]

MatchGlobs == {<<"*", "*", "/", "B", ".", "t", "s">>, <<"*", "*", "/", "*", ".", "t", "s">>, <<"[">>}
ExcludeGlobs == {<<>>, <<<<"[">>, <<"l", "s", "/", "*", "*">>>>}
Requires == {<<>>, <<SiblingExact(<<"B", ".", "m", "d">>)>>, <<SiblingGlob(<<"*", ".", "m", "d">>), SiblingExact(<<"q", ".", "t", "s">>)>>}

WhenAppImports == [importer_glob |-> <<"a", "p", "p", "/", "*", "*">>, import_path_matches |-> <<<<"^", "@", "/", "l">>>>]
WhenAnyImports == [importer_glob |-> <<"*", "*", "/", "*", ".", "t", "s">>, import_path_matches |-> <<<<"(">>, <<"B">>>>]
UnderLib == [must_be_under |-> <<<<"l">>>>, message |-> None]
UnderComponents == [must_be_under |-> <<<<"/", "c", "/">>, <<"a", "p", "p">>>>, message |-> Some(<<"m">>)]

Conditionals == {<<None, None>>, <<Some(WhenAppImports), None>>, <<None, Some(UnderLib)>>,
                 <<Some(WhenAppImports), Some(UnderLib)>>,
                 <<Some(WhenAnyImports), Some(UnderComponents)>>}

\* Every combination of match, exclusion and one of the two rule bodies:
\* sibling requirements or a conditional placement.
OrganizationChecks ==
    {[id |-> "r1",
      match |-> [glob |-> g, exclude_glob |-> x],
      require |-> b[1],
      when_imported_by |-> b[2][1],
      enforce_location |-> b[2][2]] :
        g \in MatchGlobs, x \in ExcludeGlobs,
        b \in {<<r, c>> \in Requires \X Conditionals : r = <<>> \/ c = <<None, None>>}
              \cup {<<<<SiblingExact(<<"B", ".", "m", "d">>)>>, <<Some(WhenAppImports), Some(UnderLib)>>>>}}

ConfigWith(severity, checks) ==
    [DefaultConfig EXCEPT
        !.rules.file_organization.severity = severity,
        !.rules.file_organization.options.file_organization_checks = checks]

Configs == {ConfigWith(severity, <<check>>) :
               severity \in {"warn", "error"}, check \in OrganizationChecks}

NoCall == [fn |-> "none"]

Init ==
    /\ fs \in Trees
    /\ root = ProjectRoot
    /\ config \in Configs
    /\ pc = "walk"
    /\ all_files = <<>>
    /\ index = EmptyIndex
    /\ pair = [file |-> 1, rule |-> 1]
    /\ diagnostics = <<>>
    /\ call = NoCall

Next ==
    \/ LintWalk
    \/ OrgBuildIndex
    \/ OrgEvaluate
    \/ LintReturn

Spec == Init /\ [][Next]_vars

\* ------------------------------------------------------------------------
\* What the properties speak about
\* ------------------------------------------------------------------------

\* The root-relative spelling of a walked file: the text after "<root>/".
RootRelative(file) == Drop(file, Len(root) + 1)

\* A glob matches a text when it compiles and accepts the text.
GlobAccepts(glob, text) ==
    IsSome(PatternNew(glob)) /\ PatternMatches(Unwrap(PatternNew(glob)), text)

\* A file matches a glob in its bare or its slash-prefixed relative spelling.
FileMatches(file, glob) ==
    \/ GlobAccepts(glob, RootRelative(file))
    \/ GlobAccepts(glob, <<SLASH>> \o RootRelative(file))

FileExcluded(file, check) ==
    \E i \in 1..Len(check.match.exclude_glob) : FileMatches(file, check.match.exclude_glob[i])

PassesMatch(file, check) == FileMatches(file, check.match.glob) /\ ~FileExcluded(file, check)

\* The entries of the tree that lie directly in the directory of a file.
Siblings(file) == {e \in DOMAIN fs : e # <<SLASH>> /\ CanonParent(e) = CanonParent(file)}

EntryName(e) == Components(e)[Len(Components(e))]

\* A requirement is unmet beside a file when the tree holds no such sibling.
Unmet(req, file) ==
    IF req.kind = "sibling_exact"
    THEN ChildPath(CanonParent(file), req.name) \notin DOMAIN fs
    ELSE ~\E e \in Siblings(file) : GlobAccepts(req.glob, EntryName(e))

UnmetCount(check, file) == Cardinality({k \in 1..Len(check.require) : Unmet(check.require[k], file)})

RuleName(check) == <<"file-organization", check.id>>

\* Positions in the collection of the diagnostics of one kind that a rule
\* emitted for a file.
DiagnosticsOf(check, file, kind) ==
    {i \in 1..Len(diagnostics) :
        /\ diagnostics[i].rule = RuleName(check)
        /\ diagnostics[i].file = file
        /\ diagnostics[i].message[1] = kind}

SiblingDiags(check, file) == DiagnosticsOf(check, file, "missing")
LocationDiags(check, file) == DiagnosticsOf(check, file, "location")

Severity == config.rules.file_organization.severity

\* C1: when the run is over, a rule has emitted a sibling-requirement
\* diagnostic for a walked file exactly when the file matches the rule's glob,
\* matches none of its exclude globs, and some requirement is unmet beside it.
C1_SiblingDiagnosticIff ==
    pc = "done" =>
        \A f \in 1..Len(all_files) : \A r \in 1..Len(Checks) :
            (SiblingDiags(Checks[r], all_files[f]) # {})
            <=> (/\ PassesMatch(all_files[f], Checks[r])
                 /\ UnmetCount(Checks[r], all_files[f]) > 0)

\* A finished run in which one matched file lacks its companion and was
\* reported while another matched file has it and was not.
C1_Witness ==
    /\ pc = "done"
    /\ \E r \in 1..Len(Checks) : \E f, g \in 1..Len(all_files) :
        /\ PassesMatch(all_files[f], Checks[r]) /\ PassesMatch(all_files[g], Checks[r])
        /\ SiblingDiags(Checks[r], all_files[f]) # {}
        /\ Checks[r].require # <<>>
        /\ SiblingDiags(Checks[r], all_files[g]) = {}

\* C2: when the run is over, a matched file has exactly one sibling
\* diagnostic of the rule per unmet requirement, and every sibling diagnostic
\* carries the severity of the file-organization rule and names a walked file.
C2_OnePerUnmetRequirement ==
    pc = "done" =>
        \A r \in 1..Len(Checks) :
            /\ \A f \in 1..Len(all_files) :
                   PassesMatch(all_files[f], Checks[r]) =>
                       Cardinality(SiblingDiags(Checks[r], all_files[f]))
                           = UnmetCount(Checks[r], all_files[f])
            /\ \A i \in 1..Len(diagnostics) :
                   (diagnostics[i].rule = RuleName(Checks[r])
                    /\ diagnostics[i].message[1] = "missing") =>
                       /\ diagnostics[i].severity = Severity
                       /\ diagnostics[i].file \in SeqToSet(all_files)

\* A finished run in which one file got two sibling diagnostics at severity
\* error, and a run in which a requirement of two is met and one is not.
C2_Witness ==
    /\ pc = "done"
    /\ Severity = "error"
    /\ \E r \in 1..Len(Checks) : \E f \in 1..Len(all_files) :
        /\ Len(Checks[r].require) = 2
        /\ Cardinality(SiblingDiags(Checks[r], all_files[f])) = 1
        /\ \E g \in 1..Len(all_files) :
               Cardinality(SiblingDiags(Checks[r], all_files[g])) = 2

\* The specifiers written in a file of the tree.
SpecifiersOf(file) ==
    {fs[file].content[i].arg : i \in {k \in 1..Len(fs[file].content) :
        fs[file].content[k].kind \in {"import", "require", "export"}}}

RegexAccepts(re, text) == IsSome(RegexNew(re)) /\ RegexIsMatch(Unwrap(RegexNew(re)), text)

\* An importer listed under the file in the import graph triggers the rule.
HasTriggeringImporter(check, file) ==
    /\ file \in DOMAIN index
    /\ \E i \in 1..Len(index[file]) :
        /\ FileMatches(index[file][i], Unwrap(check.when_imported_by).importer_glob)
        /\ \E sp \in SpecifiersOf(index[file][i]) :
               \E j \in 1..Len(Unwrap(check.when_imported_by).import_path_matches) :
                   RegexAccepts(Unwrap(check.when_imported_by).import_path_matches[j], sp)

\* A relative path is under a prefix when, slashes trimmed off the prefix, it
\* is the prefix or continues it after a path separator.
SegmentUnder(rel, prefix) ==
    LET p == TrimEnd(TrimStart(prefix, SLASH), SLASH)
    IN rel = p \/ StartsWith(rel, p \o <<SLASH>>)

UnderNone(file, check) ==
    \A i \in 1..Len(Unwrap(check.enforce_location).must_be_under) :
        ~SegmentUnder(RootRelative(file), Unwrap(check.enforce_location).must_be_under[i])

\* C3: when the run is over, a rule has emitted a location diagnostic for a
\* walked file exactly when the file passes the match step, the rule has both
\* when_imported_by and enforce_location, an importer listed under the file
\* triggers the rule, and the file is under none of must_be_under.
C3_LocationDiagnosticIff ==
    pc = "done" =>
        \A f \in 1..Len(all_files) : \A r \in 1..Len(Checks) :
            (LocationDiags(Checks[r], all_files[f]) # {})
            <=> (/\ PassesMatch(all_files[f], Checks[r])
                 /\ IsSome(Checks[r].when_imported_by)
                 /\ IsSome(Checks[r].enforce_location)
                 /\ HasTriggeringImporter(Checks[r], all_files[f])
                 /\ UnderNone(all_files[f], Checks[r]))

\* C4: at any moment of a run, a rule has emitted at most one location
\* diagnostic for a file.
C4_AtMostOneLocationDiagnostic ==
    \A f \in 1..Len(all_files) : \A r \in 1..Len(Checks) :
        Cardinality(LocationDiags(Checks[r], all_files[f])) <= 1

\* A finished run in which a misplaced file was reported once although two
\* different importers trigger the rule and one of them is listed twice.
C4_Witness ==
    /\ pc = "done"
    /\ \E f \in 1..Len(all_files) : \E r \in 1..Len(Checks) :
        /\ Cardinality(LocationDiags(Checks[r], all_files[f])) = 1
        /\ HasTriggeringImporter(Checks[r], all_files[f])
        /\ Len(index[all_files[f]]) >= 3
        /\ Cardinality(SeqToSet(index[all_files[f]])) = 2
        /\ \A i \in 1..Len(index[all_files[f]]) :
               FileMatches(index[all_files[f]][i],
                           Unwrap(Checks[r].when_imported_by).importer_glob)

RuleDiags(check, file) ==
    {i \in 1..Len(diagnostics) :
        diagnostics[i].rule = RuleName(check) /\ diagnostics[i].file = file}

\* C6: is_excluded holds of a file exactly when some exclude pattern matches
\* it, never for an empty list; when the run is over, a file that matches the
\* rule's glob but is excluded has no diagnostic of the rule at all, while a
\* matched file that is not excluded is still reported for what it lacks.
C6_ExcludedFileIsSkipped ==
    pc = "done" =>
        \A f \in 1..Len(all_files) : \A r \in 1..Len(Checks) :
            /\ is_excluded(all_files[f], Checks[r].match.exclude_glob, root)
                   <=> FileExcluded(all_files[f], Checks[r])
            /\ ~is_excluded(all_files[f], <<>>, root)
            /\ (FileMatches(all_files[f], Checks[r].match.glob)
                /\ FileExcluded(all_files[f], Checks[r]))
                   => RuleDiags(Checks[r], all_files[f]) = {}
            /\ (PassesMatch(all_files[f], Checks[r])
                /\ UnmetCount(Checks[r], all_files[f]) > 0)
                   => SiblingDiags(Checks[r], all_files[f]) # {}

\* A finished run in which an excluded file that lacks its companion went
\* unreported while a matched file beside it was reported.
C6_Witness ==
    /\ pc = "done"
    /\ \E r \in 1..Len(Checks) : \E f, g \in 1..Len(all_files) :
        /\ FileMatches(all_files[f], Checks[r].match.glob)
        /\ FileExcluded(all_files[f], Checks[r])
        /\ UnmetCount(Checks[r], all_files[f]) > 0
        /\ RuleDiags(Checks[r], all_files[f]) = {}
        /\ RuleDiags(Checks[r], all_files[g]) # {}

\* The globs of a rule, wherever the rule holds one.
GlobsOf(check) ==
    {check.match.glob} \cup SeqToSet(check.match.exclude_glob)
    \cup {check.require[k].glob : k \in {n \in 1..Len(check.require) :
                                          check.require[n].kind = "sibling_glob"}}
    \cup (IF IsSome(check.when_imported_by)
          THEN {Unwrap(check.when_imported_by).importer_glob} ELSE {})

\* Globs that do not compile: those of the configuration, and three more.
InvalidGlobs ==
    {g \in UNION {GlobsOf(Checks[r]) : r \in 1..Len(Checks)} \cup {<<"*", "*", "*">>, <<"l", "*", "*">>, <<"[", "!">>} :
        ~IsSome(PatternNew(g))}

ValidOnly(patterns) == SelectSeq(patterns, LAMBDA g : g \notin InvalidGlobs)

\* C8: a glob that does not compile matches no entry of the tree, adds
\* nothing to an exclude list and finds no sibling in any directory; a rule
\* whose match.glob does not compile has no diagnostic at any moment.
C8_InvalidGlobMatchesNothing ==
    /\ pc = "done" =>
        /\ \A g \in InvalidGlobs : \A e \in DOMAIN fs :
            /\ ~matches_glob(e, g, root)
            /\ find_sibling_by_glob(e, g) = <<>>
        /\ \A r \in 1..Len(Checks) : \A e \in DOMAIN fs :
            is_excluded(e, Checks[r].match.exclude_glob, root)
                <=> is_excluded(e, ValidOnly(Checks[r].match.exclude_glob), root)
    /\ \A r \in 1..Len(Checks) :
        Checks[r].match.glob \in InvalidGlobs =>
            \A i \in 1..Len(diagnostics) : diagnostics[i].rule # RuleName(Checks[r])

\* A run that went through to its end under a rule whose match.glob does not
\* compile, over files that lack the companion the rule requires.
C8_Witness ==
    /\ pc = "done"
    /\ \E r \in 1..Len(Checks) :
        /\ Checks[r].match.glob \in InvalidGlobs
        /\ \E f \in 1..Len(all_files) : UnmetCount(Checks[r], all_files[f]) > 0

\* ------------------------------------------------------------------------
\* The utility functions called on their own
\* ------------------------------------------------------------------------

MaxPrefixes == 2

\* Trees for the probing of resolve_to_actual_file: a candidate with and
\* without extension, a directory with index files and a file named like it.
ProbedFiles == {<<"/", "r", "/", "l", "/", "B">>, <<"/", "r", "/", "l", "/", "B", ".", "t", "s">>, <<"/", "r", "/", "l", "/", "B", ".", "t", "s", "x">>, <<"/", "r", "/", "l", "/", "B", ".", "c", "j", "s">>,
                <<"/", "r", "/", "c", ".", "t", "s">>, <<"/", "r", "/", "c", "/", "i", "n", "d", "e", "x", ".", "t", "s">>, <<"/", "r", "/", "c", "/", "i", "n", "d", "e", "x", ".", "t", "s", "x">>}

UtilPage == <<Line("import", <<"@", "/", "l", "/", "B">>), Line("import", <<"@", "/", "c">>), Line("import", <<".", "/", "z", "z">>)>>

UtilTrees ==
    {[p \in Directories \cup {AppPage} \cup present |->
         IF p \in Directories THEN Dir
         ELSE File(IF p = AppPage THEN UtilPage ELSE <<>>)] :
        present \in SUBSET ProbedFiles}

UtilRoots == {<<"/", "r">>, <<"/", "r", "/", "a", "p", "p">>}

GlobPaths == {<<"/", "r", "/", "p", ".", "t", "s">>, <<"/", "r", "/", "x", "p", ".", "t", "s">>, <<"/", "r", "/", "a", "p", "p", "/", "p", ".", "t", "s">>, <<"/", "r", "/", "a", "p", "p", "/", "x", "p", ".", "t", "s">>, <<"/", "r", "/", "p", ".", "t", "s", "/", "B">>,
              <<"/", "r", "/", "l", "/", "B">>, <<"/", "r", "/", "B">>, <<"/", "r", "/", "a", "p", "p", "/", "l", "/", "x", "B">>}
GlobPatterns == {<<"*", "*", "/", "p", ".", "t", "s">>, <<"*", "*", "/", "B">>, <<"a", "p", "p", "/", "*", ".", "t", "s">>, <<"*", "*", "/", "*", ".", "t", "s">>, <<"/", "p", ".", "t", "s">>}

PrefixPaths == {<<"/", "r", "/", "l", "/", "B", ".", "t", "s">>, <<"/", "r", "/", "l", "s", "/", "B", ".", "t", "s">>, <<"/", "r", "/", "l">>, <<"/", "r", "/", "c", "/", "u", "/", "B", ".", "t", "s">>, <<"/", "r", "/", "a", "p", "p", "/", "c", "/", "B", ".", "t", "s">>}
Prefixes == {<<"l">>, <<"/", "l", "/">>, <<"c", "/", "u">>, <<"l", "s", "/">>}
PrefixLists == UNION {[1..n -> Prefixes] : n \in 0..MaxPrefixes}

Specifiers == {<<"@", "/", "l", "/", "B">>, <<"@", "/">>, <<".", "/", "B">>, <<".", ".", "/", "l", "/", "B">>, <<"x">>, <<"@", "x", "/", "B">>, <<".", "x">>, <<".", ".">>}
Importers == {<<"/", "r", "/", "a", "p", "p", "/", "p", ".", "t", "s">>, <<"/", "r", "/", "p", ".", "t", "s">>, <<"/", "r", "/", "l", "/", "s", "/", "q", ".", "t", "s">>}

Candidates == {<<"/", "r", "/", "l", "/", "B">>, <<"/", "r", "/", "c">>, <<"/", "r", "/", "l", "/", "B", ".", "t", "s">>, <<"/", "r", "/", "a", "p", "p", "/", ".", ".", "/", "l", "/", "B">>, <<"/", "r", "/", "c", "/">>, <<"/", "r", "/", "z", "z">>}

CallMatchesGlob ==
    /\ pc = "idle"
    /\ \E path \in GlobPaths, pattern \in GlobPatterns :
        call' = [fn |-> "matches_glob", path |-> path, pattern |-> pattern,
                 ret |-> matches_glob(path, pattern, root)]
    /\ pc' = "returned"
    /\ UNCHANGED <<fs, root, config, all_files, index, pair, diagnostics>>

CallIsUnderAnyPrefix ==
    /\ pc = "idle"
    /\ \E path \in PrefixPaths, prefixes \in PrefixLists :
        call' = [fn |-> "is_under_any_prefix", path |-> path, prefixes |-> prefixes,
                 ret |-> is_under_any_prefix(path, prefixes, root)]
    /\ pc' = "returned"
    /\ UNCHANGED <<fs, root, config, all_files, index, pair, diagnostics>>

CallResolveImportPath ==
    /\ pc = "idle"
    /\ \E import_specifier \in Specifiers, importer_file \in Importers :
        call' = [fn |-> "resolve_import_path", import_specifier |-> import_specifier,
                 importer_file |-> importer_file,
                 ret |-> resolve_import_path(import_specifier, importer_file, root)]
    /\ pc' = "returned"
    /\ UNCHANGED <<fs, root, config, all_files, index, pair, diagnostics>>

CallResolveToActualFile ==
    /\ pc = "idle"
    /\ \E base_path \in Candidates :
        call' = [fn |-> "resolve_to_actual_file", base_path |-> base_path,
                 ret |-> resolve_to_actual_file(base_path)]
    /\ pc' = "returned"
    /\ UNCHANGED <<fs, root, config, all_files, index, pair, diagnostics>>

CallBuildImportIndex ==
    /\ pc = "idle"
    /\ call' = [fn |-> "build_import_index", files |-> <<AppPage>>,
                ret |-> build_import_index(<<AppPage>>, root)]
    /\ pc' = "returned"
    /\ UNCHANGED <<fs, root, config, all_files, index, pair, diagnostics>>

InitUtils ==
    /\ fs \in UtilTrees
    /\ root \in UtilRoots
    /\ config = DefaultConfig
    /\ pc = "idle"
    /\ all_files = <<>>
    /\ index = EmptyIndex
    /\ pair = [file |-> 1, rule |-> 1]
    /\ diagnostics = <<>>
    /\ call = NoCall

NextUtils ==
    \/ CallMatchesGlob
    \/ CallIsUnderAnyPrefix
    \/ CallResolveImportPath
    \/ CallResolveToActualFile
    \/ CallBuildImportIndex

SpecUtils == InitUtils /\ [][NextUtils]_vars

\* The text of a path after "<root>/", for a path that lies under the root.
UnderRoot(path) == StartsWith(path, root \o <<SLASH>>)
AfterRoot(path) == Drop(path, Len(root) + 1)

LastSegment(text) == Split(text)[Len(Split(text))]

\* C5: is_under_any_prefix is segment-aware: for a path under the root it
\* returns true exactly when, for some prefix with its slashes trimmed, the
\* relative path is the prefix or continues it after a path separator.
C5_PrefixIsSegmentAware ==
    (call.fn = "is_under_any_prefix" /\ UnderRoot(call.path)) =>
        (call.ret <=> \E i \in 1..Len(call.prefixes) :
                          SegmentUnder(AfterRoot(call.path), call.prefixes[i]))

\* A pattern "**/X" for a literal file name X, and that X.
IsDeepName(pattern) ==
    /\ StartsWith(pattern, <<STAR, STAR, SLASH>>)
    /\ Len(pattern) > 3
    /\ SeqToSet(Drop(pattern, 3)) \cap {STAR, QUESTION, LBRACKET, RBRACKET, SLASH} = {}

\* C7: for a file under the root and a literal file name X,
\* matches_glob(file, "**/X", root) is true exactly when the last segment of
\* the file's root-relative path is X.
C7_DeepNameMatchesWholeSegment ==
    (call.fn = "matches_glob" /\ UnderRoot(call.path) /\ IsDeepName(call.pattern)) =>
        (call.ret <=> LastSegment(AfterRoot(call.path)) = Drop(call.pattern, 3))

\* A call that matched a file lying directly in the root.
C7_Witness ==
    /\ call.fn = "matches_glob" /\ UnderRoot(call.path) /\ IsDeepName(call.pattern)
    /\ call.ret
    /\ Len(Split(AfterRoot(call.path))) = 1

\* The text of a path up to its last separator: the directory of a file.
DirectoryText(path) ==
    LET cuts == {i \in 1..Len(path) : path[i] = SLASH}
        last == CHOOSE i \in cuts : \A j \in cuts : j <= i
    IN IF last = 1 THEN <<SLASH>> ELSE SubSeq(path, 1, last - 1)

\* C9: resolve_import_path returns the root joined with what follows "@/" for
\* an alias specifier, the importer's directory joined with the specifier for
\* one that starts with "./" or "../", and none for any other; whatever the
\* tree holds.
C9_ResolveImportPath ==
    call.fn = "resolve_import_path" =>
        LET sp == call.import_specifier
        IN IF Len(sp) >= 2 /\ sp[1] = AT /\ sp[2] = SLASH
           THEN call.ret = Some(root \o <<SLASH>> \o Drop(sp, 2))
           ELSE IF \/ (Len(sp) >= 2 /\ sp[1] = DOT /\ sp[2] = SLASH)
                   \/ (Len(sp) >= 3 /\ sp[1] = DOT /\ sp[2] = DOT /\ sp[3] = SLASH)
           THEN call.ret = Some(DirectoryText(call.importer_file) \o <<SLASH>> \o sp)
           ELSE call.ret = None

\* A relative specifier resolved to a candidate the tree holds under no
\* extension.
C9_Witness ==
    /\ call.fn = "resolve_import_path"
    /\ IsSome(call.ret)
    /\ StartsWith(call.import_specifier, <<DOT, DOT, SLASH>>)
    /\ \A i \in 1..Len(Extensions) : ~Exists(Unwrap(call.ret) \o Extensions[i])

\* The thirteen probes of a candidate in their fixed order.
ProbeSuffixes ==
    <<<<>>, <<".", "t", "s">>, <<".", "t", "s", "x">>, <<".", "j", "s">>, <<".", "j", "s", "x">>, <<".", "m", "j", "s">>, <<".", "c", "j", "s">>,
      <<"/", "i", "n", "d", "e", "x", ".", "t", "s">>, <<"/", "i", "n", "d", "e", "x", ".", "t", "s", "x">>, <<"/", "i", "n", "d", "e", "x", ".", "j", "s">>, <<"/", "i", "n", "d", "e", "x", ".", "j", "s", "x">>, <<"/", "i", "n", "d", "e", "x", ".", "m", "j", "s">>, <<"/", "i", "n", "d", "e", "x", ".", "c", "j", "s">>>>

Probes(base) ==
    [i \in 1..Len(ProbeSuffixes) |->
        (IF i > 7 THEN TrimEnd(base, SLASH) ELSE base) \o ProbeSuffixes[i]]

\* The first probe that is a regular file of the tree, none if there is none.
FirstHit(base) ==
    LET hits == {k \in 1..Len(Probes(base)) : IsFile(Probes(base)[k])}
    IN IF hits = {} THEN None
       ELSE Some(Probes(base)[CHOOSE k \in hits : \A j \in hits : k <= j])

\* C10: resolve_to_actual_file returns the first regular file among the
\* candidate, the candidate with .ts, .tsx, .js, .jsx, .mjs, .cjs appended,
\* and then index.ts .. index.cjs inside the candidate; none if there is none.
\* The import graph has a key for a specifier exactly when a probe hits.
C10_FirstProbeWins ==
    /\ call.fn = "resolve_to_actual_file" => call.ret = FirstHit(call.base_path)
    /\ call.fn = "build_import_index" =>
        DOMAIN call.ret =
            {Unwrap(Canonicalize(Unwrap(FirstHit(b)))) :
                b \in {c \in {root \o <<"/", "l", "/", "B">>, root \o <<"/", "c">>, <<"/", "r", "/", "a", "p", "p", "/", ".", "/", "z", "z">>} : IsSome(FirstHit(c))}}

\* A candidate that is a directory holding index.ts and index.tsx, no file
\* of its name with an extension beside it: index.ts is returned.
C10_Witness ==
    /\ call.fn = "resolve_to_actual_file"
    /\ IsDir(call.base_path)
    /\ \A i \in 1..7 : ~IsFile(Probes(call.base_path)[i])
    /\ IsFile(Probes(call.base_path)[8]) /\ IsFile(Probes(call.base_path)[9])
    /\ call.ret = Some(PathJoin(call.base_path, <<"i", "n", "d", "e", "x", ".", "t", "s">>))

\* ------------------------------------------------------------------------
\* The import extractor and the import graph builder, called on their own
\* ------------------------------------------------------------------------

MaxGraphLines == 2

ComponentsFile == <<"/", "r", "/", "c", ".", "t", "s">>

\* Spellings of the same target: the directory (index-file probe), the index
\* file by name, the index file and the directory by a relative detour.
GraphLines == {Line("import", <<"@", "/", "c">>), Line("require", <<"@", "/", "c", "/", "i", "n", "d", "e", "x", ".", "t", "s">>),
               Line("export", <<".", "/", ".", ".", "/", "c", "/", "i", "n", "d", "e", "x", ".", "t", "s">>), Line("import", <<".", ".", "/", "c">>),
               Line("require", <<"x">>)}

\* The texts of app/p.ts: every sequence of at most MaxGraphLines lines.
GraphPages == UNION {[1..n -> GraphLines] : n \in 0..MaxGraphLines}

GraphTrees ==
    {[p \in Directories \cup {AppPage, LibButton} \cup present |->
         IF p \in Directories THEN Dir
         ELSE File(IF p = AppPage THEN page
                   ELSE IF p = LibButton THEN button
                   ELSE <<>>)] :
        present \in SUBSET {ComponentsIndex, ComponentsFile},
        page \in GraphPages,
        button \in {<<>>, <<Line("import", <<".", ".", "/", "c">>)>>}}

GraphFileLists == {<<AppPage>>, <<AppPage, LibButton>>, <<LibButton, AppPage>>}

CallExtractImports ==
    /\ pc = "idle"
    /\ \E file_path \in {AppPage, LibButton, <<"/", "r", "/", "a", "p", "p", "/", "q", ".", "t", "s">>} :
        call' = [fn |-> "extract_imports", file_path |-> file_path,
                 ret |-> extract_imports(file_path)]
    /\ pc' = "returned"
    /\ UNCHANGED <<fs, root, config, all_files, index, pair, diagnostics>>

CallBuildGraph ==
    /\ pc = "idle"
    /\ \E files \in GraphFileLists :
        call' = [fn |-> "build_import_index", files |-> files,
                 ret |-> build_import_index(files, root)]
    /\ pc' = "returned"
    /\ UNCHANGED <<fs, root, config, all_files, index, pair, diagnostics>>

InitGraph ==
    /\ fs \in GraphTrees
    /\ root = ProjectRoot
    /\ config = DefaultConfig
    /\ pc = "idle"
    /\ all_files = <<>>
    /\ index = EmptyIndex
    /\ pair = [file |-> 1, rule |-> 1]
    /\ diagnostics = <<>>
    /\ call = NoCall

NextGraph ==
    \/ CallExtractImports
    \/ CallBuildGraph

SpecGraph == InitGraph /\ [][NextGraph]_vars

\* The import, require and export-from lines of a file of the tree, in text
\* order.
SpecifierLines(file) ==
    SelectSeq(fs[file].content,
              LAMBDA line : line.kind \in {"import", "require", "export"})

\* The candidate a specifier names, as text: alias, relative, or none.
CandidateText(sp, importer) ==
    IF Len(sp) >= 2 /\ sp[1] = AT /\ sp[2] = SLASH
    THEN Some(root \o <<SLASH>> \o Drop(sp, 2))
    ELSE IF \/ (Len(sp) >= 2 /\ sp[1] = DOT /\ sp[2] = SLASH)
            \/ (Len(sp) >= 3 /\ sp[1] = DOT /\ sp[2] = DOT /\ sp[3] = SLASH)
    THEN Some(DirectoryText(importer) \o <<SLASH>> \o sp)
    ELSE None

\* The spelling under which the probes find a specifier's file, and the file
\* on disk that spelling denotes; none when the specifier is dropped.
SpellingOf(sp, importer) ==
    IF IsSome(CandidateText(sp, importer))
    THEN FirstHit(Unwrap(CandidateText(sp, importer)))
    ELSE None

Denotes(sp, importer) ==
    IF IsSome(SpellingOf(sp, importer))
    THEN Canonicalize(Unwrap(SpellingOf(sp, importer)))
    ELSE None

\* C11: in the import graph no two keys name the same file on disk, and every
\* specifier that resolves to a file is recorded under that file's canonical
\* path: two spellings of one file share one key.
C11_SpellingsCoalesce ==
    call.fn = "build_import_index" =>
        /\ \A k1, k2 \in DOMAIN call.ret :
               (Exists(k1) /\ Canonicalize(k1) = Canonicalize(k2)) => k1 = k2
        /\ \A f \in SeqToSet(call.files) :
               \A i \in 1..Len(SpecifierLines(f)) :
                   LET target == Denotes(SpecifierLines(f)[i].arg, f)
                   IN IsSome(target) =>
                          /\ Unwrap(target) \in DOMAIN call.ret
                          /\ \E n \in 1..Len(call.ret[Unwrap(target)]) :
                                 call.ret[Unwrap(target)][n] = f

\* A graph built from two specifiers found under different spellings, one by
\* the index-file probe and one through "..", that denote one file.
C11_Witness ==
    /\ call.fn = "build_import_index"
    /\ \E f \in SeqToSet(call.files) :
           \E i, j \in 1..Len(SpecifierLines(f)) :
               LET a == SpecifierLines(f)[i].arg
                   b == SpecifierLines(f)[j].arg
               IN /\ IsSome(Denotes(a, f))
                  /\ Denotes(a, f) = Denotes(b, f)
                  /\ SpellingOf(a, f) # SpellingOf(b, f)
                  /\ SpellingOf(a, f) = Denotes(a, f)
                  /\ Cardinality(DOMAIN call.ret) = 1

Occurrences(list, x) == Cardinality({i \in 1..Len(list) : list[i] = x})

\* C12: an importer occurs under a target as many times as it has specifiers
\* resolving to that target; a key holds importers of the file list only, and
\* a file with no resolving specifier is under no key.
C12_OncePerResolvingImport ==
    call.fn = "build_import_index" =>
        /\ \A f \in SeqToSet(call.files) :
               LET targets == [i \in 1..Len(SpecifierLines(f)) |->
                                  Denotes(SpecifierLines(f)[i].arg, f)]
               IN \A target \in DOMAIN call.ret \cup {p \in DOMAIN fs : fs[p].kind # "dir"} :
                      Occurrences(IF target \in DOMAIN call.ret THEN call.ret[target] ELSE <<>>, f)
                          = Occurrences(targets, Some(target))
        /\ \A target \in DOMAIN call.ret :
               /\ call.ret[target] # <<>>
               /\ SeqToSet(call.ret[target]) \subseteq SeqToSet(call.files)

\* One importer listed twice under one target, another importer of the list
\* under no key.
C12_Witness ==
    /\ call.fn = "build_import_index"
    /\ \E target \in DOMAIN call.ret : Occurrences(call.ret[target], AppPage) = 2
    /\ \E f \in SeqToSet(call.files) :
           \A target \in DOMAIN call.ret : Occurrences(call.ret[target], f) = 0

\* The specifiers of the lines of one kind, in text order.
SpecifiersOfKind(file, kind) ==
    LET lines == SelectSeq(fs[file].content, LAMBDA line : line.kind = kind)
    IN [i \in 1..Len(lines) |-> lines[i].arg]

\* C13 as claimed: extract_imports returns the specifiers of the import,
\* require and export-from occurrences in the order of the file's text.
C13_TextOrder ==
    (call.fn = "extract_imports" /\ call.file_path \in DOMAIN fs) =>
        call.ret = [i \in 1..Len(SpecifierLines(call.file_path)) |->
                       SpecifierLines(call.file_path)[i].arg]

\* C13 as the code has it: extract_imports returns the specifiers of the
\* `import .. from` occurrences in text order, then those of the `require(..)`
\* occurrences in text order, then those of the `export .. from` occurrences
\* in text order; nothing for a file that cannot be read.
C13_PatternByPattern ==
    call.fn = "extract_imports" =>
        IF call.file_path \in DOMAIN fs
        THEN call.ret = SpecifiersOfKind(call.file_path, "import")
                        \o SpecifiersOfKind(call.file_path, "require")
                        \o SpecifiersOfKind(call.file_path, "export")
        ELSE call.ret = <<>>

\* A file whose text has a require before an import: the import comes first
\* in what is returned.
C13_Witness ==
    /\ call.fn = "extract_imports"
    /\ call.file_path \in DOMAIN fs
    /\ Len(fs[call.file_path].content) = 2
    /\ fs[call.file_path].content[1].kind = "require"
    /\ fs[call.file_path].content[2].kind = "import"
    /\ call.ret = <<fs[call.file_path].content[2].arg, fs[call.file_path].content[1].arg>>

\* ------------------------------------------------------------------------
\* Runs and calls over trees with unreadable files and directories
\* ------------------------------------------------------------------------

ClientPage(specifier) ==
    <<Line("use client", <<>>), Line("export_decl", <<"g", "e", "t", "S", "e", "r", "v", "e", "r", "S", "i", "d", "e", "P", "r", "o", "p", "s">>),
      Line("import", specifier)>>

\* app/p.ts and l/B.ts import each other and are client components with a
\* server-side export; each may be unreadable, and ls may be unlistable.
ErrorTrees ==
    {[p \in Directories \cup {AppPage, LibButton} \cup present |->
         IF p = <<"/", "r", "/", "l", "s">> THEN [kind |-> kinds[3], content |-> <<>>]
         ELSE IF p \in Directories THEN Dir
         ELSE IF p = AppPage THEN [kind |-> kinds[1], content |-> ClientPage(<<"@", "/", "l", "/", "B">>)]
         ELSE IF p = LibButton THEN [kind |-> kinds[2], content |-> ClientPage(<<".", ".", "/", "a", "p", "p", "/", "p">>)]
         ELSE File(<<>>)] :
        present \in SUBSET {LibButtonDoc, LibsButton},
        kinds \in {"file", "locked"} \X {"file", "locked"} \X {"dir", "locked_dir"}}

RequireDoc ==
    [id |-> "r1",
     match |-> [glob |-> <<"*", "*", "/", "*", ".", "t", "s">>, exclude_glob |-> <<>>],
     require |-> <<SiblingGlob(<<"*", ".", "m", "d">>)>>,
     when_imported_by |-> None,
     enforce_location |-> None]

PlaceImported ==
    [id |-> "r2",
     match |-> [glob |-> <<"*", "*", "/", "B", ".", "t", "s">>, exclude_glob |-> <<>>],
     require |-> <<SiblingExact(<<"B", ".", "m", "d">>)>>,
     when_imported_by |-> Some(WhenAnyImports),
     enforce_location |-> Some(UnderComponents)]

ErrorConfigs == {ConfigWith("error", <<RequireDoc>>), ConfigWith("warn", <<PlaceImported>>)}

CallFindSiblingByGlob ==
    /\ pc = "idle"
    /\ \E dir \in {<<"/", "r", "/", "l">>, <<"/", "r", "/", "l", "s">>, <<"/", "r", "/", "z", "z">>, AppPage, <<"/", "r", "/", "a", "p", "p">>},
              glob_pattern \in {<<"*", ".", "t", "s">>, <<"*", ".", "m", "d">>, <<"[">>, <<"*", ".", "t", "s", "*">>} :
        call' = [fn |-> "find_sibling_by_glob", dir |-> dir, glob_pattern |-> glob_pattern,
                 ret |-> find_sibling_by_glob(dir, glob_pattern)]
    /\ pc' = "returned"
    /\ UNCHANGED <<fs, root, config, all_files, index, pair, diagnostics>>

InitErrors ==
    /\ fs \in ErrorTrees
    /\ root = ProjectRoot
    /\ config \in ErrorConfigs
    /\ pc \in {"walk", "idle"}
    /\ all_files = <<>>
    /\ index = EmptyIndex
    /\ pair = [file |-> 1, rule |-> 1]
    /\ diagnostics = <<>>
    /\ call = NoCall

NextErrors ==
    \/ LintWalk
    \/ OrgBuildIndex
    \/ OrgEvaluate
    \/ LintReturn
    \/ CallExtractImports
    \/ CallFindSiblingByGlob

SpecErrors == InitErrors /\ [][NextErrors]_vars

Readable(p) == p \in DOMAIN fs /\ fs[p].kind = "file"
Unreadable(p) == p \in DOMAIN fs /\ fs[p].kind = "locked"
Listable(p) == p \in DOMAIN fs /\ fs[p].kind = "dir"

HasDiagnostic(rule, file) ==
    \E i \in 1..Len(diagnostics) :
        diagnostics[i].rule = rule /\ diagnostics[i].file = file

\* The source files of the tree that a walk can reach: none of their
\* directories is unlistable.
Reachable(p) ==
    /\ p \in DOMAIN fs
    /\ fs[p].kind \in {"file", "locked"}
    /\ LastSegment(p)[Len(LastSegment(p))] = "s"
    /\ \A d \in DOMAIN fs : (fs[d].kind = "locked_dir") => ~StartsWith(p, d \o <<SLASH>>)

HasUpperCase(text) == \E i \in 1..Len(text) : text[i] \in {"B", "P"}

\* C14: a file access error stays local.  extract_imports returns nothing for
\* an unreadable file and find_sibling_by_glob nothing for a directory that
\* cannot be listed.  A finished run has walked every reachable source file;
\* an unreadable one has no server-side-exports diagnostic and imports
\* nothing in the graph, and every file, readable or not, walked before or
\* after it, has the diagnostics that are its own.
C14_FileErrorsStayLocal ==
    /\ (call.fn = "extract_imports" /\ ~Readable(call.file_path)) => call.ret = <<>>
    /\ (call.fn = "find_sibling_by_glob" /\ ~Listable(call.dir)) => call.ret = <<>>
    /\ pc = "done" =>
        /\ SeqToSet(all_files) = {p \in DOMAIN fs : Reachable(p)}
        /\ \A f \in SeqToSet(all_files) :
            /\ Unreadable(f) =>
                /\ ~HasDiagnostic(<<"server-side-exports">>, f)
                /\ \A target \in DOMAIN index : f \notin SeqToSet(index[target])
            /\ (Readable(f) /\ fs[f].content # <<>>) =>
                   HasDiagnostic(<<"server-side-exports">>, f)
            /\ HasDiagnostic(<<"filename-style-consistency">>, f)
                   <=> HasUpperCase(LastSegment(f))
            /\ \A r \in 1..Len(Checks) :
                   (Checks[r].id = "r1" /\ DirectoryText(f) \o <<"/", "B", ".", "m", "d">> \notin DOMAIN fs)
                       => HasDiagnostic(<<"file-organization", "r1">>, f)

\* A finished run that walked an unreadable file and, after it, a readable
\* one that got its server-side-exports diagnostic.
C14_Witness ==
    /\ pc = "done"
    /\ \E i, j \in 1..Len(all_files) :
        /\ i < j
        /\ Unreadable(all_files[i])
        /\ Readable(all_files[j])
        /\ HasDiagnostic(<<"server-side-exports">>, all_files[j])

\* ------------------------------------------------------------------------
\* main.rs: the command line run
\* ------------------------------------------------------------------------

config_candidates == <<<<"n", "a", "e", "c", "h", "s", "t", "e", ".", "j", "s", "o", "n">>, <<"n", "a", "e", "c", "h", "s", "t", "e", ".", "j", "s", "o", "n", "c">>, <<"n", "a", "e", "c", "h", "s", "t", "e", ".", "y", "a", "m", "l">>, <<"n", "a", "e", "c", "h", "s", "t", "e", ".", "y", "m", "l">>>>

\* find_config_in_directory: the first candidate that exists in the
\* directory, naechste.json when none does.
find_config_in_directory(base) ==
    LET found == SelectSeq(config_candidates, LAMBDA name : Exists(PathJoin(base, name)))
    IN IF found # <<>> THEN PathJoin(base, Head(found))
       ELSE PathJoin(base, <<"n", "a", "e", "c", "h", "s", "t", "e", ".", "j", "s", "o", "n">>)

\* main, lines 38-54, run without --config: the configuration is looked up in
\* the project directory and loaded; a failure is reported on stderr and the
\* built-in configuration taken.
MainLoadConfig ==
    /\ pc = "main"
    /\ LET config_path == find_config_in_directory(root)
           loaded == ConfigLoad(config_path)
       IN /\ config' = IF IsSome(loaded) THEN Unwrap(loaded) ELSE DefaultConfig
          /\ call' = [fn |-> "main", config_path |-> config_path,
                      warned |-> ~IsSome(loaded), exit_code |-> None]
    /\ pc' = "walk"
    /\ UNCHANGED <<fs, root, all_files, index, pair, diagnostics>>

\* main, lines 65-67: the exit status.
MainExit ==
    /\ pc = "done"
    /\ call' = [call EXCEPT !.exit_code = Some(IF has_errors(diagnostics) THEN 1 ELSE 0)]
    /\ pc' = "exited"
    /\ UNCHANGED <<fs, root, config, all_files, index, pair, diagnostics>>

ConfigJson == <<"/", "r", "/", "n", "a", "e", "c", "h", "s", "t", "e", ".", "j", "s", "o", "n">>
ConfigYaml == <<"/", "r", "/", "n", "a", "e", "c", "h", "s", "t", "e", ".", "y", "a", "m", "l">>

MainConfigs ==
    {ConfigWith(severity, checks) :
        severity \in {"warn", "error"},
        checks \in {<<>>, <<RequireDoc>>, <<PlaceImported>>,
                    <<RequireDoc, PlaceImported>>, <<PlaceImported, RequireDoc>>}}

\* What naechste.json may be: a configuration, text that parses in no format,
\* or a file that may not be read.
ConfigFiles ==
    {File(<<Line("config", c)>>) : c \in MainConfigs}
    \cup {File(<<Line("garbage", <<>>)>>), [kind |-> "locked", content |-> <<>>]}

MainTree(present, json, yaml) ==
    [p \in Directories \cup {AppPage, LibButton} \cup present \cup json \cup yaml |->
        IF p \in Directories THEN Dir
        ELSE IF p = AppPage THEN File(<<Line("import", <<"@", "/", "l", "/", "B">>)>>)
        ELSE IF p = LibButton THEN File(ClientPage(<<"x">>))
        ELSE IF p = ConfigYaml THEN File(<<Line("config", ConfigWith("error", <<RequireDoc>>))>>)
        ELSE File(<<>>)]

MainTrees ==
    {MainTree(present, {}, yaml) :
        present \in SUBSET {LibButtonDoc, LibsButton}, yaml \in SUBSET {ConfigYaml}}
    \cup
    {[MainTree(present, {ConfigJson}, yaml) EXCEPT ![ConfigJson] = json] :
        present \in SUBSET {LibButtonDoc, LibsButton}, yaml \in SUBSET {ConfigYaml},
        json \in ConfigFiles}

InitMain ==
    /\ fs \in MainTrees
    /\ root = ProjectRoot
    /\ config = DefaultConfig
    /\ pc = "main"
    /\ all_files = <<>>
    /\ index = EmptyIndex
    /\ pair = [file |-> 1, rule |-> 1]
    /\ diagnostics = <<>>
    /\ call = NoCall

NextMain ==
    \/ MainLoadConfig
    \/ LintWalk
    \/ OrgBuildIndex
    \/ OrgEvaluate
    \/ LintReturn
    \/ MainExit

SpecMain == InitMain /\ [][NextMain]_vars

\* C15: the exit status is 1 when the collection lint returned holds a
\* diagnostic of severity error and 0 otherwise, however many warnings it
\* holds.
C15_ExitStatus ==
    pc = "exited" =>
        /\ (\E i \in 1..Len(diagnostics) : diagnostics[i].severity = "error")
               => call.exit_code = Some(1)
        /\ (\A i \in 1..Len(diagnostics) : diagnostics[i].severity = "warn")
               => call.exit_code = Some(0)

\* A run that ended with several warnings, no error, and status 0.
C15_Witness ==
    /\ pc = "exited"
    /\ Len(diagnostics) >= 3
    /\ \A i \in 1..Len(diagnostics) : diagnostics[i].severity = "warn"
    /\ call.exit_code = Some(0)

\* The configuration file a run without --config reads, and whether it is
\* missing, unreadable or malformed.
ChosenConfig ==
    IF ConfigJson \in DOMAIN fs THEN ConfigJson
    ELSE IF ConfigYaml \in DOMAIN fs THEN ConfigYaml
    ELSE ConfigJson

ConfigFails ==
    \/ ChosenConfig \notin DOMAIN fs
    \/ fs[ChosenConfig].kind = "locked"
    \/ fs[ChosenConfig].content[1].kind # "config"

BuiltInRule ==
    [severity |-> "warn",
     options |-> [max_nesting_depth |-> 3, filename_style |-> "KebabCase",
                  require_test_files |-> FALSE, require_story_files |-> FALSE,
                  companion_file_patterns |->
                      [integration_tests |-> <<>>, page_user_scenarios |-> <<>>,
                       custom |-> <<>>],
                  file_organization_checks |-> <<>>]]

\* C16: when the configuration file is missing, unreadable or malformed the
\* run warns and lints with the built-in configuration (every rule at warn,
\* depth 3, kebab-case, no requirement, no companion pattern, no
\* organization check), every diagnostic is a warning and the exit status is
\* 0; otherwise it does not warn and lints with the configuration of the file.
C16_FallsBackToDefaults ==
    pc # "main" =>
        IF ConfigFails
        THEN /\ call.warned
             /\ \A rule \in DOMAIN config.rules : config.rules[rule] = BuiltInRule
             /\ DOMAIN config.rules = {"server_side_exports", "component_nesting_depth",
                                       "filename_style_consistency",
                                       "missing_companion_files", "file_organization"}
             /\ \A i \in 1..Len(diagnostics) : diagnostics[i].severity = "warn"
             /\ pc = "exited" => call.exit_code = Some(0)
        ELSE /\ ~call.warned
             /\ config = fs[ChosenConfig].content[1].arg

\* A run over a malformed naechste.json beside a well-formed naechste.yaml
\* that asks for errors: it ended with warnings and status 0.
C16_Witness ==
    /\ pc = "exited"
    /\ ConfigJson \in DOMAIN fs /\ ConfigYaml \in DOMAIN fs
    /\ fs[ConfigJson].kind = "file" /\ ConfigFails
    /\ diagnostics # <<>>
    /\ call.exit_code = Some(0)

\* C18: no step of a run changes the audited tree.
C18_FilesystemUnchanged == [][fs' = fs]_vars

\* A run that walked, extracted, built a graph with an entry, evaluated rules
\* and ended, over a tree with every optional file.
C18_Witness ==
    /\ pc = "exited"
    /\ index # EmptyIndex
    /\ Len(all_files) = 3
    /\ \E i \in 1..Len(diagnostics) : diagnostics[i].rule = <<"file-organization", "r2">>

\* The diagnostics of one organization rule for one file, in order.
DiagnosticsOfRule(check, file) ==
    SelectSeq(diagnostics,
              LAMBDA d : d.rule = <<"file-organization", check.id>> /\ d.file = file)

\* C19: in a finished run the diagnostics of each organization rule for each
\* file are those of the rule evaluated on its own, whichever other rules are
\* configured and whatever they emitted.
C19_RulesAreIndependent ==
    pc \in {"done", "exited"} =>
        \A r \in 1..Len(Checks) : \A f \in SeqToSet(all_files) :
            DiagnosticsOfRule(Checks[r], f) =
                EvaluateCheck(Checks[r], f, build_import_index(all_files, root),
                              config.rules.file_organization.severity, root)

\* One file with diagnostics of two rules in one run.
C19_Witness ==
    /\ pc = "exited"
    /\ Len(Checks) = 2
    /\ \E f \in SeqToSet(all_files) :
           /\ Len(DiagnosticsOfRule(Checks[1], f)) = 2
           /\ Len(DiagnosticsOfRule(Checks[2], f)) = 1

FileIndex(file) == CHOOSE k \in 1..Len(all_files) : all_files[k] = file

\* The place of a diagnostic's rule among the rules: the three per-file rules
\* in the order lint calls them, then the organization rules as configured.
RuleIndex(d) ==
    IF d.rule = <<"server-side-exports">> THEN 1
    ELSE IF d.rule = <<"component-nesting-depth">> THEN 2
    ELSE IF d.rule = <<"filename-style-consistency">> THEN 3
    ELSE 3 + (CHOOSE r \in 1..Len(Checks) : Checks[r].id = d.rule[2])

IsOrganization(d) == d.rule[1] = "file-organization"

InOrder(a, b) ==
    \/ FileIndex(a.file) < FileIndex(b.file)
    \/ FileIndex(a.file) = FileIndex(b.file) /\ RuleIndex(a) <= RuleIndex(b)

\* C20 as claimed: the collection is in file-then-rule order, every diagnostic
\* of an earlier file before every diagnostic of a later file.
C20_FileThenRule ==
    pc \in {"done", "exited"} =>
        \A i, j \in 1..Len(diagnostics) :
            i < j => InOrder(diagnostics[i], diagnostics[j])

\* C20 as the code has it: the diagnostics of the per-file rules come first,
\* in file-then-rule order; the diagnostics of the organization rules follow
\* them all, in file-then-rule order among themselves.
C20_TwoPasses ==
    pc \in {"done", "exited"} =>
        \A i, j \in 1..Len(diagnostics) :
            i < j =>
                /\ IsOrganization(diagnostics[i]) => IsOrganization(diagnostics[j])
                /\ (IsOrganization(diagnostics[i]) <=> IsOrganization(diagnostics[j]))
                       => InOrder(diagnostics[i], diagnostics[j])

\* A run where an organization diagnostic of the first file follows a
\* per-file diagnostic of a later file, and one file has two per-file
\* diagnostics and the diagnostics of two organization rules.
C20_Witness ==
    /\ pc = "exited"
    /\ \E i, j \in 1..Len(diagnostics) :
        /\ i < j
        /\ ~IsOrganization(diagnostics[i]) /\ IsOrganization(diagnostics[j])
        /\ FileIndex(diagnostics[j].file) < FileIndex(diagnostics[i].file)
    /\ \E i \in 1..Len(diagnostics) :
        /\ i + 1 <= Len(diagnostics)
        /\ diagnostics[i].file = diagnostics[i + 1].file
        /\ RuleIndex(diagnostics[i]) = 1 /\ RuleIndex(diagnostics[i + 1]) = 3
    /\ \E i \in 1..Len(diagnostics) :
        /\ i + 1 <= Len(diagnostics)
        /\ diagnostics[i].file = diagnostics[i + 1].file
        /\ RuleIndex(diagnostics[i]) = 4 /\ RuleIndex(diagnostics[i + 1]) = 5

\* ------------------------------------------------------------------------
\* The per-file rules called on their own
\* ------------------------------------------------------------------------

Text(chars) == Line("text", chars)

\* What a client component may hold around its exports: a directive line
\* before them or after them, in either kind of quotes, padded, followed by
\* a semicolon, or commented out.
DirectiveLines ==
    {<<<<>>, <<>>>>,
     <<<<Text(<<"'", "u", "s", "e", " ", "c", "l", "i", "e", "n", "t", "'">>)>>, <<>>>>,
     <<<<Text(<<"\"", "u", "s", "e", " ", "c", "l", "i", "e", "n", "t", "\"">>)>>, <<>>>>,
     <<<<>>, <<Text(<<"'", "u", "s", "e", " ", "c", "l", "i", "e", "n", "t", "'">>)>>>>,
     <<<<Text(<<" ", "\t">> \o <<"\"", "u", "s", "e", " ", "c", "l", "i", "e", "n", "t", "\"">> \o <<" ", "\r">>)>>, <<>>>>,
     <<<<Text(<<"'", "u", "s", "e", " ", "c", "l", "i", "e", "n", "t", "'", ";">>)>>, <<>>>>,
     <<<<Text(<<"/", "/", " ", "'", "u", "s", "e", " ", "c", "l", "i", "e", "n", "t", "'">>)>>, <<>>>>}

ExportLines ==
    <<Text(<<"e", "x", "p", "o", "r", "t", " ", "a", "s", "y", "n", "c", " ", "f", "u", "n", "c", "t", "i", "o", "n", " ", "g", "e", "t", "S", "e", "r", "v", "e", "r", "S", "i", "d", "e", "P", "r", "o", "p", "s", "(", ")", " ", "{", "}">>),
      Text(<<"e", "x", "p", "o", "r", "t", " ", "c", "o", "n", "s", "t", " ", "g", "e", "t", "S", "t", "a", "t", "i", "c", "P", "r", "o", "p", "s", " ", "=", " ", "1">>),
      Text(<<"e", "x", "p", "o", "r", "t", " ", "f", "u", "n", "c", "t", "i", "o", "n", " ", "g", "e", "t", "S", "t", "a", "t", "i", "c", "P", "a", "t", "h", "s", "(", ")", " ", "{", "}">>),
      Text(<<"e", "x", "p", "o", "r", "t", " ", " ", "a", "s", "y", "n", "c">> \o <<"\t">> \o <<"f", "u", "n", "c", "t", "i", "o", "n", " ", " ", " ", "g", "e", "t", "I", "n", "i", "t", "i", "a", "l", "P", "r", "o", "p", "s", "(", ")", " ", "{", "}">>),
      Text(<<"e", "x", "p", "o", "r", "t", " ", "c", "o", "n", "s", "t", " ", "g", "e", "t", "S", "t", "a", "t", "i", "c", "P", "r", "o", "p", "s", "C", "a", "c", "h", "e", " ", "=", " ", "1">>),
      Text(<<"e", "x", "p", "o", "r", "t", " ", "d", "e", "f", "a", "u", "l", "t", " ", "f", "u", "n", "c", "t", "i", "o", "n", " ", "g", "e", "t", "I", "n", "i", "t", "i", "a", "l", "P", "r", "o", "p", "s", "(", ")", " ", "{", "}">>),
      Text(<<"e", "x", "p", "o", "r", "t", " ", "l", "e", "t", " ", "g", "e", "t", "S", "t", "a", "t", "i", "c", "P", "a", "t", "h", "s", " ", "=", " ", "1">>)>>

RuleFiles ==
    {d[1] \o SelectSeq(ExportLines, LAMBDA line : line \in keep) \o d[2] :
        d \in DirectiveLines, keep \in SUBSET SeqToSet(ExportLines)}

AppDir == <<"/", "r", "/", "a", "p", "p">>

RuleTree(content) ==
    [p \in {ProjectRoot, AppDir, AppPage} |-> IF p = AppPage THEN File(content) ELSE Dir]

RuleTrees == {RuleTree(content) : content \in RuleFiles}

ServerConfigs ==
    {[DefaultConfig EXCEPT !.rules.server_side_exports.severity = severity] :
        severity \in {"warn", "error"}}

MaxNestingDepth == 4

DepthConfigs ==
    {[DefaultConfig EXCEPT
         !.rules.component_nesting_depth.options.max_nesting_depth = max_depth] :
        max_depth \in 0..MaxNestingDepth}

StyleConfigs ==
    {[DefaultConfig EXCEPT
         !.rules.filename_style_consistency.options.filename_style = style] :
        style \in {"KebabCase", "CamelCase", "PascalCase", "SnakeCase"}}

RuleConfigs == ServerConfigs \cup DepthConfigs \cup StyleConfigs

\* File names of every shape the four styles tell apart, special names, and
\* names with a second dot.
StyleNames ==
    {<<"b", "u", "t", "t", "o", "n", ".", "t", "s", "x">>, <<"b", ".", "t", "s">>, <<"m", "y", "-", "c", "o", "m", "p", "o", "n", "e", "n", "t", ".", "t", "s", "x">>, <<"m", "y", "-", "-", "c", "o", "m", "p", "o", "n", "e", "n", "t", ".", "t", "s", "x">>, <<"-", "m", "y", ".", "t", "s", "x">>, <<"m", "y", "-", ".", "t", "s", "x">>,
     <<"c", "o", "m", "p", "o", "n", "e", "n", "t", "-", "1", "2", "3", ".", "t", "s", "x">>, <<"c", "1", ".", "t", "s", "x">>, <<"2", "f", "a", ".", "t", "s", "x">>, <<"2", "f", "a", "-", "s", "e", "t", "u", "p", ".", "t", "s", "x">>, <<"1", "2", "3", ".", "t", "s">>,
     <<"m", "y", "_", "c", "o", "m", "p", "o", "n", "e", "n", "t", ".", "t", "s", "x">>, <<"m", "y", "_", "_", "c", "o", "m", "p", "o", "n", "e", "n", "t", ".", "t", "s", "x">>, <<"_", "m", "y", ".", "t", "s", "x">>, <<"m", "y", "_", ".", "t", "s", "x">>, <<"a", "_", "1", ".", "t", "s">>, <<"1", "_", "a", ".", "t", "s">>,
     <<"m", "y", "-", "m", "i", "x", "e", "d", "_", "n", "a", "m", "e", ".", "t", "s">>, <<"m", "y", "C", "o", "m", "p", "o", "n", "e", "n", "t", ".", "t", "s", "x">>, <<"m", "y", "2", "C", "o", "m", "p", "o", "n", "e", "n", "t", ".", "t", "s", "x">>, <<"m", "y", "-", "C", "o", "m", "p", "o", "n", "e", "n", "t", ".", "t", "s", "x">>,
     <<"M", "y", "C", "o", "m", "p", "o", "n", "e", "n", "t", ".", "t", "s", "x">>, <<"B", "u", "t", "t", "o", "n", ".", "t", "s", "x">>, <<"B", ".", "t", "s", "x">>, <<"B", "2", ".", "t", "s", "x">>, <<"C", "O", "M", "P", "O", "N", "E", "N", "T", ".", "t", "s", "x">>, <<"M", "y", "_", "C", "o", "m", "p", "o", "n", "e", "n", "t", ".", "t", "s", "x">>,
     <<"p", "a", "g", "e", ".", "t", "s", "x">>, <<"P", "a", "g", "e", ".", "t", "s", "x">>, <<"l", "a", "y", "o", "u", "t", ".", "t", "s", "x">>, <<"t", "e", "m", "p", "l", "a", "t", "e", ".", "j", "s">>, <<"l", "o", "a", "d", "i", "n", "g", ".", "t", "s", "x">>, <<"e", "r", "r", "o", "r", ".", "t", "s", "x">>,
     <<"n", "o", "t", "-", "f", "o", "u", "n", "d", ".", "t", "s", "x">>, <<"r", "o", "u", "t", "e", ".", "t", "s">>, <<"d", "e", "f", "a", "u", "l", "t", ".", "t", "s", "x">>, <<"m", "i", "d", "d", "l", "e", "w", "a", "r", "e", ".", "t", "s">>, <<"n", "e", "x", "t", ".", "c", "o", "n", "f", "i", "g", ".", "j", "s">>,
     <<"t", "a", "i", "l", "w", "i", "n", "d", ".", "c", "o", "n", "f", "i", "g", ".", "t", "s">>, <<"p", "o", "s", "t", "c", "s", "s", ".", "c", "o", "n", "f", "i", "g", ".", "c", "j", "s">>, <<"e", "s", "l", "i", "n", "t", ".", "c", "o", "n", "f", "i", "g", ".", "m", "j", "s">>, <<"t", "s", "c", "o", "n", "f", "i", "g", ".", "t", "s">>,
     <<"j", "s", "c", "o", "n", "f", "i", "g", ".", "j", "s">>, <<"v", "i", "t", "e", "s", "t", ".", "c", "o", "n", "f", "i", "g", ".", "t", "s">>, <<"j", "e", "s", "t", ".", "c", "o", "n", "f", "i", "g", ".", "j", "s">>, <<"p", "a", "g", "e", ".", "t", "e", "s", "t", ".", "t", "s", "x">>,
     <<"w", "e", "b", "p", "a", "c", "k", ".", "c", "o", "n", "f", "i", "g", ".", "j", "s">>, <<"B", "u", "t", "t", "o", "n", ".", "s", "t", "o", "r", "i", "e", "s", ".", "t", "s", "x">>}

StylePaths == {PathJoin(AppDir, name) : name \in StyleNames}

\* Files under app/, under pages/, under both in either order and under
\* neither.
DepthFiles ==
    {<<"/", "r", "/", "a", "p", "p", "/", "p", ".", "t", "s">>, <<"/", "r", "/", "a", "p", "p", "/", "a", "/", "p", ".", "t", "s">>, <<"/", "r", "/", "a", "p", "p", "/", "a", "/", "b", "/", "p", ".", "t", "s">>, <<"/", "r", "/", "a", "p", "p", "/", "a", "/", "b", "/", "c", "/", "p", ".", "t", "s">>,
     <<"/", "r", "/", "a", "p", "p", "/", "a", "/", "b", "/", "c", "/", "d", "/", "p", ".", "t", "s">>, <<"/", "r", "/", "p", "a", "g", "e", "s", "/", "p", ".", "t", "s">>, <<"/", "r", "/", "p", "a", "g", "e", "s", "/", "a", "/", "b", "/", "c", "/", "p", ".", "t", "s">>, <<"/", "r", "/", "p", "a", "g", "e", "s", "/", "a", "/", "b", "/", "c", "/", "d", "/", "p", ".", "t", "s">>,
     <<"/", "r", "/", "p", "a", "g", "e", "s", "/", "a", "/", "a", "p", "p", "/", "p", ".", "t", "s">>, <<"/", "r", "/", "a", "p", "p", "/", "a", "/", "p", "a", "g", "e", "s", "/", "p", ".", "t", "s">>, <<"/", "r", "/", "a", "p", "p", "/", "a", "/", "a", "p", "p", "/", "b", "/", "p", ".", "t", "s">>,
     <<"/", "r", "/", "l", "/", "a", "/", "b", "/", "c", "/", "d", "/", "p", ".", "t", "s">>, <<"/", "r", "/", "m", "y", "a", "p", "p", "/", "a", "/", "b", "/", "c", "/", "d", "/", "p", ".", "t", "s">>}

\* The paths the rule is called with: the files, spelled with doubled
\* separators or relative to the working directory as well.
DepthPaths ==
    DepthFiles \cup {<<"/", "r", "/", "a", "p", "p", "/", "/", "a", "/", "/", "p", ".", "t", "s">>, <<"a", "p", "p", "/", "a", "/", "b", "/", "c", "/", "d", "/", "p", ".", "t", "s">>, <<"p", "a", "g", "e", "s", "/", "a", "/", "b", "/", "c", "/", "d", "/", "p", ".", "t", "s">>}

Ancestors(path) == {SubSeq(path, 1, i - 1) : i \in {k \in 2..Len(path) : path[k] = SLASH}}

\* The tree that holds the given files, empty, and the directories above
\* them.
TreeOf(files) ==
    [p \in files \cup UNION {Ancestors(f) : f \in files} |->
        IF p \in files THEN File(<<>>) ELSE Dir]

PathTree == TreeOf(DepthFiles \cup StylePaths)

MaxCompanions == 2

Component == <<"/", "r", "/", "a", "p", "p", "/", "B", ".", "t", "s", "x">>
ComponentTest == <<"/", "r", "/", "a", "p", "p", "/", "B", ".", "t", "e", "s", "t", ".", "t", "s", "x">>
RoutePage == <<"/", "r", "/", "a", "p", "p", "/", "p", "a", "g", "e", ".", "t", "s", "x">>

\* What may lie beside a component and a page.
Companions ==
    {ComponentTest, <<"/", "r", "/", "a", "p", "p", "/", "B", ".", "s", "p", "e", "c", ".", "t", "s", "x">>, <<"/", "r", "/", "a", "p", "p", "/", "_", "_", "t", "e", "s", "t", "s", "_", "_", "/", "B", ".", "t", "s", "x">>, <<"/", "r", "/", "a", "p", "p", "/", "B", ".", "t", "e", "s", "t", ".", "t", "s">>,
     <<"/", "r", "/", "a", "p", "p", "/", "B", ".", "s", "t", "o", "r", "i", "e", "s", ".", "t", "s", "x">>, <<"/", "r", "/", "a", "p", "p", "/", "B", ".", "t", "e", "s", "t", ".", "i", "n", "t", ".", "t", "s", "x">>, <<"/", "r", "/", "a", "p", "p", "/", "p", "a", "g", "e", ".", "u", "s", ".", "m", "d">>, <<"/", "r", "/", "a", "p", "p", "/", "B", ".", "m", "d">>}

CompanionTrees ==
    {TreeOf({Component, RoutePage} \cup present) :
        present \in {c \in SUBSET Companions : Cardinality(c) <= MaxCompanions}}

CompanionConfigs ==
    {[DefaultConfig EXCEPT
         !.rules.missing_companion_files.options.require_test_files = tests,
         !.rules.missing_companion_files.options.require_story_files = stories,
         !.rules.missing_companion_files.options.companion_file_patterns =
             [integration_tests |-> integration, page_user_scenarios |-> scenarios,
              custom |-> custom]] :
        tests \in BOOLEAN, stories \in BOOLEAN,
        integration \in {<<>>, <<<<"*", ".", "i", "n", "t", ".", "{", "e", "x", "t", "}">>, <<"*", ".", "t", "e", "s", "t", ".", "i", "n", "t", ".", "{", "e", "x", "t", "}">>>>},
        scenarios \in {<<>>, <<<<"p", "a", "g", "e", ".", "u", "s", ".", "m", "d">>>>},
        custom \in {<<>>, <<<<"docs", <<<<"*", ".", "m", "d">>>>>>, <<"none", <<>>>>>>}}

\* A rule is handed a file of the walk and a collection, and adds to the
\* collection.
CallCheckServerSideExports ==
    /\ pc = "idle"
    /\ IsFile(AppPage)
    /\ LET added == check_server_side_exports(AppPage, config)
       IN /\ diagnostics' = diagnostics \o added
          /\ call' = [fn |-> "check_server_side_exports", path |-> AppPage,
                      added |-> added]
    /\ pc' = "called"
    /\ UNCHANGED <<fs, root, config, all_files, index, pair>>

CallCheckComponentNestingDepth ==
    /\ pc = "idle"
    /\ \E path \in DepthPaths :
           /\ IsFile(path)
           /\ LET added == check_component_nesting_depth(path, config)
              IN /\ diagnostics' = diagnostics \o added
                 /\ call' = [fn |-> "check_component_nesting_depth", path |-> path,
                             added |-> added]
    /\ pc' = "called"
    /\ UNCHANGED <<fs, root, config, all_files, index, pair>>

CallCheckFilenameStyle ==
    /\ pc = "idle"
    /\ \E path \in StylePaths :
           /\ IsFile(path)
           /\ LET added == check_filename_style(path, config)
              IN /\ diagnostics' = diagnostics \o added
                 /\ call' = [fn |-> "check_filename_style", path |-> path, added |-> added]
    /\ pc' = "called"
    /\ UNCHANGED <<fs, root, config, all_files, index, pair>>

CallCheckMissingCompanionFiles ==
    /\ pc = "idle"
    /\ \E path \in {Component, RoutePage, ComponentTest, <<"/", "r", "/", "a", "p", "p", "/", "B", ".", "s", "t", "o", "r", "i", "e", "s", ".", "t", "s", "x">>, <<"/", "r", "/", "a", "p", "p", "/", "B", ".", "m", "d">>} :
           /\ IsFile(path)
           /\ LET added == check_missing_companion_files(path, config)
              IN /\ diagnostics' = diagnostics \o added
                 /\ call' = [fn |-> "check_missing_companion_files", path |-> path,
                             added |-> added]
    /\ pc' = "called"
    /\ UNCHANGED <<fs, root, config, all_files, index, pair>>

InitRules ==
    /\ \/ fs \in RuleTrees /\ config \in ServerConfigs
       \/ fs = PathTree /\ config \in RuleConfigs
       \/ fs \in CompanionTrees /\ config \in CompanionConfigs
    /\ root = ProjectRoot
    /\ pc = "idle"
    /\ all_files = <<>>
    /\ index = EmptyIndex
    /\ pair = [file |-> 1, rule |-> 1]
    /\ diagnostics = <<>>
    /\ call = NoCall

NextRules ==
    \/ CallCheckServerSideExports
    \/ CallCheckComponentNestingDepth
    \/ CallCheckFilenameStyle
    \/ CallCheckMissingCompanionFiles

SpecRules == InitRules /\ [][NextRules]_vars

\* A line is the directive when it is 'use client' in single or double
\* quotes with nothing but whitespace around it.
IsDirective(text) ==
    \E i \in 1..Len(text) : \E j \in i..Len(text) :
        /\ SubSeq(text, i, j) \in {<<"'", "u", "s", "e", " ", "c", "l", "i", "e", "n", "t", "'">>, <<"\"", "u", "s", "e", " ", "c", "l", "i", "e", "n", "t", "\"">>}
        /\ \A k \in 1..Len(text) : (k < i \/ k > j) => text[k] \in WhiteSpace

HasDirective(path) == \E i \in 1..Len(fs[path].content) : IsDirective(fs[path].content[i].arg)

\* The words of a text: its maximal runs of characters that are not
\* whitespace.
RECURSIVE WordsFrom(_, _, _)
WordsFrom(text, i, cur) ==
    IF i > Len(text) THEN (IF cur = <<>> THEN <<>> ELSE <<cur>>)
    ELSE IF text[i] \in WhiteSpace
    THEN (IF cur = <<>> THEN <<>> ELSE <<cur>>) \o WordsFrom(text, i + 1, <<>>)
    ELSE WordsFrom(text, i + 1, Append(cur, text[i]))

\* The identifier a word begins with.
RECURSIVE Identifier(_)
Identifier(word) ==
    IF word = <<>> \/ Head(word) \notin LowerCase \cup UpperCase \cup Digits \cup {"_", "$"}
    THEN <<>>
    ELSE <<Head(word)>> \o Identifier(Tail(word))

\* The file exports `name` through a declaration
\* `export const|function|async function <name>`.
Exports(path, name) ==
    \E i \in 1..Len(fs[path].content) :
        LET words == WordsFrom(fs[path].content[i].arg, 1, <<>>)
            Declares(k) == k <= Len(words) /\ Identifier(words[k]) = name
        IN \E k \in 1..Len(words) :
               /\ words[k] = <<"e", "x", "p", "o", "r", "t">>
               /\ k + 1 <= Len(words)
               /\ \/ words[k + 1] \in {<<"c", "o", "n", "s", "t">>, <<"f", "u", "n", "c", "t", "i", "o", "n">>} /\ Declares(k + 2)
                  \/ /\ words[k + 1] = <<"a", "s", "y", "n", "c">>
                     /\ k + 2 <= Len(words)
                     /\ words[k + 2] = <<"f", "u", "n", "c", "t", "i", "o", "n">>
                     /\ Declares(k + 3)

ExportedServerNames(path) == SelectSeq(server_exports, LAMBDA name : Exports(path, name))

\* C21: check_server_side_exports adds diagnostics for a file only if the
\* file holds the 'use client' directive, and then exactly one
\* 'server-side-exports' diagnostic for each of the four server-side names
\* the file exports; a file without the directive gets none.
C21_OnePerExportedName ==
    (pc = "called" /\ call.fn = "check_server_side_exports") =>
        LET names == IF HasDirective(call.path) THEN ExportedServerNames(call.path)
                     ELSE <<>>
        IN /\ Len(call.added) = Len(names)
           /\ \A i \in 1..Len(names) :
                  /\ call.added[i].rule = <<"server-side-exports">>
                  /\ call.added[i].message = <<"export", names[i]>>
                  /\ call.added[i].file = call.path

\* A client component that exports only getStaticPropsCache is reported as
\* exporting getStaticProps.
C21_Witness ==
    /\ pc = "called"
    /\ call.fn = "check_server_side_exports"
    /\ HasDirective(call.path)
    /\ ExportedServerNames(call.path) = <<>>
    /\ Len(call.added) = 1
    /\ call.added[1].message = <<"export", <<"g", "e", "t", "S", "t", "a", "t", "i", "c", "P", "r", "o", "p", "s">>>>

\* The text after the first occurrence of a marker, None when the path does
\* not hold the marker.
AfterFirst(path, marker) ==
    LET starts == {i \in 1..Len(path) : HasAt(path, i, marker)}
    IN IF starts = {} THEN None
       ELSE LET first == CHOOSE i \in starts : \A j \in starts : i <= j
            IN Some(SubSeq(path, first + Len(marker), Len(path)))

\* The number of non-empty segments of a text: the positions where a
\* segment begins.
SegmentCount(text) ==
    Cardinality({i \in 1..Len(text) : text[i] # SLASH /\ (i = 1 \/ text[i - 1] = SLASH)})

\* The depth of a path below app/, or below pages/ when it holds no app/.
NestingDepth(path) ==
    IF IsSome(AfterFirst(path, <<"/", "a", "p", "p", "/">>)) THEN Some(SegmentCount(Unwrap(AfterFirst(path, <<"/", "a", "p", "p", "/">>))))
    ELSE IF IsSome(AfterFirst(path, <<"/", "p", "a", "g", "e", "s", "/">>))
    THEN Some(SegmentCount(Unwrap(AfterFirst(path, <<"/", "p", "a", "g", "e", "s", "/">>))))
    ELSE None

\* C22: check_component_nesting_depth adds exactly one
\* 'component-nesting-depth' diagnostic if and only if the path holds '/app/'
\* or '/pages/' and its depth below the first '/app/' (below the first
\* '/pages/' when there is no '/app/') exceeds max_nesting_depth; a depth
\* equal to the maximum adds none.
C22_DepthDiagnosticIff ==
    (pc = "called" /\ call.fn = "check_component_nesting_depth") =>
        LET depth == NestingDepth(call.path)
            max_depth == config.rules.component_nesting_depth.options.max_nesting_depth
        IN /\ Len(call.added) <= 1
           /\ Len(call.added) = 1 <=> (IsSome(depth) /\ Unwrap(depth) > max_depth)
           /\ \A i \in 1..Len(call.added) :
                  /\ call.added[i].rule = <<"component-nesting-depth">>
                  /\ call.added[i].file = call.path

\* A path at exactly the maximum depth below pages/ passes.
C22_Witness ==
    /\ pc = "called"
    /\ call.fn = "check_component_nesting_depth"
    /\ ~IsSome(AfterFirst(call.path, <<"/", "a", "p", "p", "/">>))
    /\ IsSome(NestingDepth(call.path))
    /\ Unwrap(NestingDepth(call.path)) =
           config.rules.component_nesting_depth.options.max_nesting_depth
    /\ Unwrap(NestingDepth(call.path)) > 1
    /\ call.added = <<>>

\* The stem of a file path: the text after the last '/', up to its last '.'
\* when that is not its first character.
StemOf(path) ==
    LET slashes == {i \in 1..Len(path) : path[i] = SLASH}
        name == SubSeq(path, IF slashes = {} THEN 1
                             ELSE 1 + CHOOSE i \in slashes : \A j \in slashes : j <= i,
                       Len(path))
        dots == {i \in 2..Len(name) : name[i] = DOT}
    IN IF dots = {} THEN name
       ELSE SubSeq(name, 1, (CHOOSE i \in dots : \A j \in dots : j <= i) - 1)

SpecialStems ==
    {<<"p", "a", "g", "e">>, <<"l", "a", "y", "o", "u", "t">>, <<"t", "e", "m", "p", "l", "a", "t", "e">>, <<"l", "o", "a", "d", "i", "n", "g">>, <<"e", "r", "r", "o", "r">>, <<"n", "o", "t", "-", "f", "o", "u", "n", "d">>, <<"r", "o", "u", "t", "e">>, <<"d", "e", "f", "a", "u", "l", "t">>,
     <<"m", "i", "d", "d", "l", "e", "w", "a", "r", "e">>, <<"n", "e", "x", "t", ".", "c", "o", "n", "f", "i", "g">>, <<"t", "a", "i", "l", "w", "i", "n", "d", ".", "c", "o", "n", "f", "i", "g">>, <<"p", "o", "s", "t", "c", "s", "s", ".", "c", "o", "n", "f", "i", "g">>, <<"e", "s", "l", "i", "n", "t", ".", "c", "o", "n", "f", "i", "g">>,
     <<"t", "s", "c", "o", "n", "f", "i", "g">>, <<"j", "s", "c", "o", "n", "f", "i", "g">>, <<"v", "i", "t", "e", "s", "t", ".", "c", "o", "n", "f", "i", "g">>, <<"j", "e", "s", "t", ".", "c", "o", "n", "f", "i", "g">>}

\* The pieces of a text between occurrences of a separator.
RECURSIVE Pieces(_, _, _)
Pieces(text, sep, cur) ==
    IF text = <<>> THEN <<cur>>
    ELSE IF Head(text) = sep THEN <<cur>> \o Pieces(Tail(text), sep, <<>>)
    ELSE Pieces(Tail(text), sep, Append(cur, Head(text)))

IsLowerWord(word) == word # <<>> /\ \A i \in 1..Len(word) : word[i] \in LowerCase \cup Digits

\* Lowercase alphanumeric words joined by single separators.
JoinedWords(stem, sep) ==
    \A i \in 1..Len(Pieces(stem, sep, <<>>)) : IsLowerWord(Pieces(stem, sep, <<>>)[i])

IsAlphanumeric(stem) == \A i \in 1..Len(stem) : stem[i] \in LowerCase \cup UpperCase \cup Digits

\* The styles as the words of the claim define them.
SatisfiesWords(style, stem) ==
    CASE style = "KebabCase" -> JoinedWords(stem, "-")
      [] style = "SnakeCase" -> JoinedWords(stem, "_")
      [] style = "CamelCase" -> /\ stem # <<>> /\ stem[1] \in LowerCase /\ IsAlphanumeric(stem)
                                /\ \E i \in 1..Len(stem) : stem[i] \in UpperCase
      [] style = "PascalCase" -> /\ stem # <<>> /\ stem[1] \in UpperCase /\ IsAlphanumeric(stem)
                                 /\ \E i \in 1..Len(stem) : stem[i] \in LowerCase

\* The styles as the code tests them: a kebab or snake stem begins with a
\* lowercase letter as well.
SatisfiesStyle(style, stem) ==
    /\ SatisfiesWords(style, stem)
    /\ style \in {"KebabCase", "SnakeCase"} => stem[1] \in LowerCase

StyleOf(cfg) == cfg.rules.filename_style_consistency.options.filename_style

StyleCall == pc = "called" /\ call.fn = "check_filename_style"

\* C23 as stated: check_filename_style adds exactly one
\* 'filename-style-consistency' diagnostic if and only if the stem is not a
\* special name and is not of the configured style, kebab and snake being
\* lowercase alphanumeric words joined by single '-' or '_'.
C23_StyleDiagnosticIff ==
    StyleCall =>
        /\ Len(call.added) <= 1
        /\ Len(call.added) = 1 <=>
               /\ StemOf(call.path) \notin SpecialStems
               /\ ~SatisfiesWords(StyleOf(config), StemOf(call.path))

\* C23 amended: the same, a kebab or snake stem having to begin with a
\* lowercase letter (later words may begin with a digit).
C23_LeadingLetter ==
    StyleCall =>
        /\ Len(call.added) <= 1
        /\ Len(call.added) = 1 <=>
               /\ StemOf(call.path) \notin SpecialStems
               /\ ~SatisfiesStyle(StyleOf(config), StemOf(call.path))
        /\ \A i \in 1..Len(call.added) :
               /\ call.added[i].rule = <<"filename-style-consistency">>
               /\ call.added[i].file = call.path

\* A stem of lowercase words whose first word begins with a digit is
\* reported under the kebab style.
C23_Witness ==
    /\ StyleCall
    /\ StyleOf(config) = "KebabCase"
    /\ JoinedWords(StemOf(call.path), "-")
    /\ StemOf(call.path)[1] \in Digits
    /\ Len(Pieces(StemOf(call.path), "-", <<>>)) > 1
    /\ Len(call.added) = 1

\* ------------------------------------------------------------------------
\* Runs of the command line on a project, one after the other, and calls
\* of find_sibling_by_glob on its directories
\* ------------------------------------------------------------------------

NestedRoot == <<"/", "r", "/", "o", "u", "t", "/", "w">>
NestedComponent == <<"/", "r", "/", "o", "u", "t", "/", "w", "/", "B", ".", "t", "s", "x">>
ModulePage == <<"/", "r", "/", "n", "o", "d", "e", "_", "m", "o", "d", "u", "l", "e", "s", "/", "q", ".", "t", "s">>
Notes == <<"/", "r", "/", "a", "p", "p", "/", "n", ".", "m", "d">>
ImportingPage == <<"/", "r", "/", "a", "p", "p", "/", "p", ".", "t", "s">>
DirectoryIndex == <<"/", "r", "/", "a", "p", "p", "/", "c", ".", "t", "s", "/", "i", "n", "d", "e", "x", ".", "t", "s">>
DottedConfig == <<"/", "r", "/", ".", "n", "a", "e", "c", "h", "s", "t", "e", ".", "c", "o", "n", "f", "i", "g", ".", "j", "s", "o", "n">>

ClientText ==
    <<Text(<<"'", "u", "s", "e", " ", "c", "l", "i", "e", "n", "t", "'">>), Text(<<"e", "x", "p", "o", "r", "t", " ", "a", "s", "y", "n", "c", " ", "f", "u", "n", "c", "t", "i", "o", "n", " ", "g", "e", "t", "S", "e", "r", "v", "e", "r", "S", "i", "d", "e", "P", "r", "o", "p", "s", "(", ")", " ", "{", "}">>)>>

RunContent(path) ==
    CASE path \in {Component, NestedComponent} -> ClientText
      [] path = ModulePage -> ClientText \o <<Line("import", <<".", ".", "/", "a", "p", "p", "/", "B">>)>>
      [] path \in {Notes, ImportingPage} -> <<Line("import", <<".", "/", "B">>)>>
      [] OTHER -> <<>>

\* The configurations of the command line tests, and one whose organization
\* rule places a component by its importers.
ServerError == [DefaultConfig EXCEPT !.rules.server_side_exports.severity = "error"]

CompanionError ==
    [DefaultConfig EXCEPT
        !.rules.missing_companion_files.severity = "error",
        !.rules.missing_companion_files.options.require_test_files = TRUE]

PlaceComponent ==
    [id |-> "r3",
     match |-> [glob |-> <<"*", "*", "/", "B", ".", "t", "s", "x">>, exclude_glob |-> <<>>],
     require |-> <<>>,
     when_imported_by |-> Some([importer_glob |-> <<"*", "*", "/", "*">>, import_path_matches |-> <<<<"B">>>>]),
     enforce_location |-> Some([must_be_under |-> <<<<"c", "o", "m", "p", "o", "n", "e", "n", "t", "s">>>>, message |-> None])]

\* A rule whose sibling glob matches the very files the rule matches.
RequireSelf ==
    [id |-> "r4",
     match |-> [glob |-> <<"*", "*", "/", "*", ".", "t", "s", "x">>, exclude_glob |-> <<>>],
     require |-> <<SiblingGlob(<<"*", ".", "t", "s", "x">>), SiblingExact(<<"B", ".", "m", "d">>)>>,
     when_imported_by |-> None,
     enforce_location |-> None]

RunConfigs ==
    {ServerError, CompanionError, ConfigWith("error", <<PlaceComponent>>),
     ConfigWith("warn", <<RequireSelf>>)}

\* The project: a client component under app/, a directory named like a
\* source file, files that are no source files, a dependency directory, a
\* second project below a directory named out; a page importing the
\* component and a configuration file may be there.
RunTree(present, config_file) ==
    LET files == {Component, NestedComponent, ModulePage, Notes, DirectoryIndex,
                  <<"/", "r", "/", "a", "p", "p", "/", "B", ".", "c", "j", "s">>, <<"/", "r", "/", "B">>}
                     \cup present \cup {config_file[i][1] : i \in 1..Len(config_file)}
    IN [p \in DOMAIN TreeOf(files) |->
           IF p \notin files THEN Dir
           ELSE IF config_file # <<>> /\ p = config_file[1][1]
           THEN File(<<Line("config", config_file[1][2])>>)
           ELSE File(RunContent(p))]

RunTrees ==
    {RunTree(present, config_file) :
        present \in SUBSET {ImportingPage},
        config_file \in {<<>>} \cup {<<<<path, c>>>> : path \in {ConfigJson, DottedConfig},
                                                      c \in RunConfigs}}

\* The command is run again on the project after the component's test file
\* has been written (integration_tests.rs 274-280).  A run is a process of
\* its own: it starts from nothing.
RunAgain ==
    /\ pc = "exited"
    /\ ComponentTest \notin DOMAIN fs
    /\ fs' = [p \in DOMAIN fs \cup {ComponentTest} |->
                 IF p = ComponentTest THEN File(<<Text(<<"t", "e", "s", "t", "(", "'", "B", "u", "t", "t", "o", "n", "'", ",", " ", "(", ")", " ", "=", ">", " ", "{", "}", ")">>)>>)
                 ELSE fs[p]]
    /\ pc' = "main"
    /\ config' = DefaultConfig
    /\ all_files' = <<>>
    /\ index' = EmptyIndex
    /\ pair' = [file |-> 1, rule |-> 1]
    /\ diagnostics' = <<>>
    /\ call' = NoCall
    /\ UNCHANGED root

InitRuns ==
    /\ fs \in RunTrees
    /\ root \in {ProjectRoot, NestedRoot}
    /\ config = DefaultConfig
    /\ pc \in {"main", "idle"}
    /\ all_files = <<>>
    /\ index = EmptyIndex
    /\ pair = [file |-> 1, rule |-> 1]
    /\ diagnostics = <<>>
    /\ call = NoCall

NextRuns ==
    \/ MainLoadConfig
    \/ LintWalk
    \/ OrgBuildIndex
    \/ OrgEvaluate
    \/ LintReturn
    \/ MainExit
    \/ RunAgain
    \/ CallFindSiblingByGlob

SpecRuns == InitRuns /\ [][NextRuns]_vars

\* A component file of the walk: js, jsx, ts or tsx, and no test or story
\* file itself.
IsComponentFile(file) ==
    /\ \E ext \in {<<".", "j", "s">>, <<".", "j", "s", "x">>, <<".", "t", "s">>, <<".", "t", "s", "x">>} : EndsWith(file, ext)
    /\ \A kind \in {<<".", "t", "e", "s", "t">>, <<".", "s", "p", "e", "c">>, <<".", "s", "t", "o", "r", "i", "e", "s">>, <<".", "s", "t", "o", "r", "y">>} :
           \A ext \in {<<".", "j", "s">>, <<".", "j", "s", "x">>, <<".", "t", "s">>, <<".", "t", "s", "x">>} : ~EndsWith(file, kind \o ext)

\* One of <stem>.test.<ext>, <stem>.spec.<ext>, __tests__/<stem>.<ext> lies
\* beside the file.
TestBeside(file) ==
    LET dir == SubSeq(file, 1, Len(file) - Len(Unwrap(FileName(file))))
        name == Unwrap(FileName(file))
        stem == StemOf(file)
        ext == SubSeq(name, Len(stem) + 1, Len(name))
    IN \E test \in {dir \o stem \o <<".", "t", "e", "s", "t">> \o ext, dir \o stem \o <<".", "s", "p", "e", "c">> \o ext,
                    dir \o <<"_", "_", "t", "e", "s", "t", "s", "_", "_", "/">> \o name} : test \in DOMAIN fs

\* C24: with require_test_files enabled in the active configuration, a run
\* reports a 'missing-companion-files' diagnostic for every component file
\* of the walk that has no test file beside it, and none for a file that has
\* one.
C24_MissingTestReported ==
    (pc = "done" /\ config.rules.missing_companion_files.options.require_test_files) =>
        \A i \in 1..Len(all_files) :
            IsComponentFile(all_files[i]) =>
                (HasDiagnostic(<<"missing-companion-files">>, all_files[i])
                    <=> ~TestBeside(all_files[i]))

\* A run whose configuration requires test files ends without a
\* 'missing-companion-files' diagnostic for a walked component that has none.
C24_Witness ==
    /\ pc = "done"
    /\ config = CompanionError
    /\ \E i \in 1..Len(all_files) :
           /\ all_files[i] = Component
           /\ ~TestBeside(Component)
           /\ ~HasDiagnostic(<<"missing-companion-files">>, Component)

\* Called on a component, check_missing_companion_files reports a missing
\* test file exactly when the option is on and none of the three test files
\* is there.
Companion_TestFileIff ==
    (pc = "called" /\ call.fn = "check_missing_companion_files" /\ call.path = Component) =>
        ((\E i \in 1..Len(call.added) : call.added[i].message = <<"test", <<"B">>>>)
            <=> (/\ config.rules.missing_companion_files.options.require_test_files
                 /\ ~TestBeside(call.path)))

IgnoredNames == {<<"n", "o", "d", "e", "_", "m", "o", "d", "u", "l", "e", "s">>, <<".", "n", "e", "x", "t">>, <<".", "g", "i", "t">>, <<"d", "i", "s", "t">>, <<"b", "u", "i", "l", "d">>, <<"c", "o", "v", "e", "r", "a", "g", "e">>, <<"o", "u", "t">>, <<".", "t", "u", "r", "b", "o">>}

SourceSuffixes == {<<".", "j", "s">>, <<".", "j", "s", "x">>, <<".", "t", "s">>, <<".", "t", "s", "x">>, <<".", "m", "j", "s">>, <<".", "c", "j", "s">>}

\* The names a path is made of.
NamesOf(path) == {Pieces(path, SLASH, <<>>)[i] : i \in 1..Len(Pieces(path, SLASH, <<>>))} \ {<<>>}

\* A path of the tree contributes to a run: a regular file below the root,
\* with a source extension, no name of its path being an ignored one.
Contributes(path) ==
    /\ path \in DOMAIN fs
    /\ fs[path].kind \in {"file", "locked"}
    /\ StartsWith(path, root \o <<SLASH>>)
    /\ \E suffix \in SourceSuffixes :
           EndsWith(path, suffix) /\ StemOf(path) \o suffix = Unwrap(FileName(path))
    /\ NamesOf(path) \cap IgnoredNames = {}

Walked == pc \in {"organize", "evaluate", "done", "exited"}

\* C25: the files of a run (the file list the per-file rules run over and
\* the organization rules are handed) are exactly the regular files with
\* extension js, jsx, ts, tsx, mjs or cjs no component of whose walked path
\* is an ignored name; no other file has a diagnostic or is an importer in
\* the import graph.
C25_ContributingFiles ==
    Walked =>
        /\ SeqToSet(all_files) = {p \in DOMAIN fs : Contributes(p)}
        /\ Len(all_files) = Cardinality(SeqToSet(all_files))
        /\ \A i \in 1..Len(diagnostics) : Contributes(diagnostics[i].file)
        /\ \A target \in DOMAIN index :
               \A i \in 1..Len(index[target]) : Contributes(index[target][i])

\* A finished run over a project where a source file and a file that is no
\* source file import the same component: the graph holds the one importer,
\* and the component under node_modules went unreported.
C25_Witness ==
    /\ pc = "done"
    /\ root = ProjectRoot
    /\ Component \in DOMAIN index
    /\ index[Component] = <<ImportingPage>>
    /\ Notes \in DOMAIN fs
    /\ HasDiagnostic(<<"server-side-exports">>, Component)
    /\ ~HasDiagnostic(<<"server-side-exports">>, ModulePage)
    /\ DirectoryIndex \in SeqToSet(all_files)

\* The configuration file of the project directory, under either of the two
\* names, None when there is none.
ProjectConfigFile ==
    IF PathJoin(root, <<"n", "a", "e", "c", "h", "s", "t", "e", ".", "j", "s", "o", "n">>) \in DOMAIN fs THEN Some(PathJoin(root, <<"n", "a", "e", "c", "h", "s", "t", "e", ".", "j", "s", "o", "n">>))
    ELSE IF PathJoin(root, <<".", "n", "a", "e", "c", "h", "s", "t", "e", ".", "c", "o", "n", "f", "i", "g", ".", "j", "s", "o", "n">>) \in DOMAIN fs
    THEN Some(PathJoin(root, <<".", "n", "a", "e", "c", "h", "s", "t", "e", ".", "c", "o", "n", "f", "i", "g", ".", "j", "s", "o", "n">>))
    ELSE None

\* C26: run on a project directory without --config, the command discovers
\* the configuration file placed in that directory and applies it: a rule
\* severity of error set in it makes a run that reports the rule exit with
\* status 1.
C26_ProjectConfigApplied ==
    (pc = "exited" /\ IsSome(ProjectConfigFile)) =>
        LET written == fs[Unwrap(ProjectConfigFile)].content[1].arg
        IN /\ config = written
           /\ (/\ written.rules.server_side_exports.severity = "error"
               /\ HasDiagnostic(<<"server-side-exports">>, Component))
                  => call.exit_code = Some(1)

\* A run on a project whose .naechste.config.json makes server-side exports
\* an error reports the export as a warning and exits with status 0.
C26_Witness ==
    /\ pc = "exited"
    /\ DottedConfig \in DOMAIN fs
    /\ fs[DottedConfig].content[1].arg = ServerError
    /\ HasDiagnostic(<<"server-side-exports">>, Component)
    /\ config = DefaultConfig
    /\ call.warned
    /\ call.exit_code = Some(0)

\* C27: in every run the import graph is built once, from the complete
\* walked file list, after the walk and before any organization rule is
\* evaluated; evaluation never changes it, and a later run starts without it.
C27_GraphBuiltOnce ==
    /\ [](pc \in {"main", "walk", "organize"} =>
              /\ index = EmptyIndex
              /\ \A i \in 1..Len(diagnostics) : diagnostics[i].rule[1] # "file-organization")
    /\ [](pc \in {"evaluate", "done", "exited"} =>
              /\ all_files = WalkedFiles(root)
              /\ index = build_import_index(all_files, root))
    /\ [][index' # index =>
              \/ pc = "organize" /\ pc' = "evaluate"
              \/ pc = "exited" /\ pc' = "main" /\ index' = EmptyIndex]_vars

\* The second run of a project whose first run built a graph with an
\* importer has walked the files and holds no graph yet.
C27_Witness ==
    /\ pc = "organize"
    /\ root = ProjectRoot
    /\ ComponentTest \in DOMAIN fs
    /\ ImportingPage \in SeqToSet(all_files)
    /\ index = EmptyIndex

\* The entries of a directory: the paths of the tree one name below it.
EntriesOf(dir) ==
    {p \in DOMAIN fs : /\ StartsWith(p, dir \o <<SLASH>>)
                       /\ \A i \in (Len(dir) + 2)..Len(p) : p[i] # SLASH}

\* C29: find_sibling_by_glob returns exactly the entries of the directory
\* whose file name matches the glob, directories and the checked file itself
\* included; hence a sibling_glob requirement whose glob matches the matched
\* file's own name is met and yields no diagnostic.
C29_EveryMatchingEntry ==
    /\ (pc = "returned" /\ call.fn = "find_sibling_by_glob") =>
           /\ SeqToSet(call.ret) =
                  IF call.dir \in DOMAIN fs /\ fs[call.dir].kind = "dir"
                  THEN {p \in EntriesOf(call.dir) :
                           GlobAccepts(call.glob_pattern, Unwrap(FileName(p)))}
                  ELSE {}
           /\ Len(call.ret) = Cardinality(SeqToSet(call.ret))
    /\ pc = "done" =>
           \A i \in 1..Len(all_files) : \A j \in 1..Len(Checks) :
               \A k \in 1..Len(Checks[j].require) :
                   LET req == Checks[j].require[k]
                   IN (/\ req.kind = "sibling_glob"
                       /\ GlobAccepts(req.glob, Unwrap(FileName(all_files[i]))))
                          => ~\E d \in 1..Len(diagnostics) :
                                  /\ diagnostics[d].file = all_files[i]
                                  /\ diagnostics[d].rule = <<"file-organization", Checks[j].id>>
                                  /\ diagnostics[d].message = <<"missing", req>>

\* A call that returned a directory and several files for one glob.
C29_Witness ==
    /\ pc = "returned"
    /\ call.fn = "find_sibling_by_glob"
    /\ call.dir = AppDir
    /\ <<"/", "r", "/", "a", "p", "p", "/", "c", ".", "t", "s">> \in SeqToSet(call.ret)
    /\ fs[<<"/", "r", "/", "a", "p", "p", "/", "c", ".", "t", "s">>].kind = "dir"
    /\ Component \in SeqToSet(call.ret)
    /\ Len(call.ret) >= 3

\* A finished run under the self-matching rule: the exact sibling is
\* reported missing for the component, the glob is not.
C29_SelfMatchRun ==
    /\ pc = "done"
    /\ Checks = <<RequireSelf>>
    /\ \E d \in 1..Len(diagnostics) :
           /\ diagnostics[d].file = Component
           /\ diagnostics[d].message = <<"missing", SiblingExact(<<"B", ".", "m", "d">>)>>

\* ------------------------------------------------------------------------
\* A diagnostic collection filled by calls of add
\* ------------------------------------------------------------------------

MaxDiagnostics == 3

\* The diagnostics handed to add: both severities, with and without a line.
SinkDiagnostics ==
    {[severity |-> severity, rule |-> rule, message |-> <<"m">>,
      file |-> AppPage, line |-> line] :
        severity \in {"error", "warn"},
        rule \in {"filename-style", "component-nesting-depth"},
        line \in {None, Some(1)}}

\* collection.add(diagnostic); call keeps what was handed over so far.
CallAdd ==
    /\ pc = "sink"
    /\ Len(diagnostics) < MaxDiagnostics
    /\ \E diagnostic \in SinkDiagnostics :
           /\ diagnostics' = add(diagnostics, diagnostic)
           /\ call' = [fn |-> "add", added |-> Append(call.added, diagnostic)]
    /\ UNCHANGED <<fs, root, config, pc, all_files, index, pair>>

InitSink ==
    /\ fs = MainTree({}, {}, {})
    /\ root = ProjectRoot
    /\ config = DefaultConfig
    /\ pc = "sink"
    /\ all_files = <<>>
    /\ index = EmptyIndex
    /\ pair = [file |-> 1, rule |-> 1]
    /\ diagnostics = new
    /\ call = [fn |-> "new", added |-> <<>>]

NextSink == CallAdd

SpecSink == InitSink /\ [][NextSink]_vars

\* C28: the collection is the added diagnostics in the order of the calls,
\* a call of add leaves every earlier diagnostic where and as it was,
\* error_count + warning_count is the number of diagnostics, and has_errors
\* is true exactly when error_count is positive.
C28_CollectionKeepsAdded ==
    /\ [](/\ diagnostics = call.added
          /\ error_count(diagnostics) + warning_count(diagnostics) = Len(diagnostics)
          /\ has_errors(diagnostics) <=> error_count(diagnostics) > 0)
    /\ [][/\ Len(diagnostics') = Len(diagnostics) + 1
          /\ \A i \in 1..Len(diagnostics) : diagnostics'[i] = diagnostics[i]]_vars

\* Three adds, an error between two warnings.
C28_Witness ==
    /\ call.fn = "add"
    /\ Len(diagnostics) = 3
    /\ diagnostics[1].severity = "warn"
    /\ diagnostics[2].severity = "error"
    /\ diagnostics[3].severity = "warn"
    /\ diagnostics[1] # diagnostics[3]
    /\ error_count(diagnostics) = 1
    /\ warning_count(diagnostics) = 2

\* C30: the ignore test covers the components of the root itself: when the
\* root handed to lint holds a component that is an ignored name, the walk
\* stops at the root, the file list is empty and the run reports nothing,
\* whatever lies below the root.
C30_IgnoredRootIsEmpty ==
    (NamesOf(root) \cap IgnoredNames # {}) =>
        /\ all_files = <<>>
        /\ diagnostics = <<>>
        /\ index = EmptyIndex
        /\ pc = "exited" => call.exit_code = Some(0)

\* A finished run from a root below a directory named out, the root holding
\* a component file.
C30_Witness ==
    /\ pc = "exited"
    /\ root = NestedRoot
    /\ <<"o", "u", "t">> \in NamesOf(root)
    /\ Unwrap(FileName(root)) \notin IgnoredNames
    /\ NestedComponent \in DOMAIN fs
    /\ fs[NestedComponent].kind = "file"
    /\ StartsWith(NestedComponent, root \o <<SLASH>>)
    /\ all_files = <<>>
    /\ diagnostics = <<>>
    /\ call.exit_code = Some(0)

====
